---- MODULE Spec2Model ----
(***************************************************************************)
(* Matching engine (src/index.js, the part that is                         *)
(* backend/matching-engine/matchingEngine.js), risk engine                 *)
(* (src/backend/price-server/riskEngine.js), shared trade state            *)
(* (src/Dockerfile, the part that is tradeState.js) and the order gateway  *)
(* (src/unnamed/part_007) of the price-cache-service.                      *)
(*                                                                         *)
(* The program runs on one JavaScript event loop: a handler runs           *)
(* uninterrupted up to its next await on a timer, the KV store or the      *)
(* relational store, and any other handler may run before it resumes.      *)
(* Every action below is one such uninterrupted segment.                   *)
(*                                                                         *)
(* Units.  Prices are integers in units of 1/PriceScale, so that the       *)
(* breach slippage entry_price * 0.0001 is exact.  Quantities are lots.    *)
(* Money is in units of 1/PriceScale as well.  null is 0.                  *)
(***************************************************************************)
EXTENDS Integers, Sequences, FiniteSets, TLC

\* ---------------------------------------------------------------- bounds
MaxTicks == 2
MaxOrders == 1
MaxTime == 2000
MaxRequests == 2

\* ------------------------------------------------------ program constants
EXECUTION_LATENCY_MS == 150
SLTP_GRACE_MS == 1000
DUPLICATE_ORDER_MS == 500
IDEM_TTL_MS == 300000
PriceScale == 10000
tickValue == 100
commission == 30
spread == 1
maxLotsEvaluation == 5
maxSlippage == 5

NULL == 0
MAX_BROADCAST_TPS == 20

\* the idempotency_key of a row or a request that has none
NoKey == "none"

\* the one instrument and the one account of the model
Symbols == {"ETHUSD"}
AccountIds == {"A1"}
AccountList == <<"A1">>

\* accounts row, the columns that never change
start_balance == 10000 * PriceScale
max_loss == 300 * PriceScale
trail_drawdown == 100 * PriceScale
profit_target == 600 * PriceScale

TickPrices == {100 * PriceScale, 110 * PriceScale}

\* the one WebSocket client of the model
ClientIds == {"w1"}

\* the symbol of a message that has no symbol field
NoSymbol == "none"

\* the clock is observed in steps of SLTP_GRACE_MS: a timer or a grace
\* period is over at the first observation at or after its end
TimeSteps == {SLTP_GRACE_MS}

Max2(a, b) == IF a >= b THEN a ELSE b
Min2(a, b) == IF a <= b THEN a ELSE b
Abs(x) == IF x >= 0 THEN x ELSE 0 - x

\* orders a client may submit (what the gateway passes to placeOrder)
OrderTemplates ==
  { [account_id |-> "A1", symbol |-> "ETHUSD", side |-> "buy", quantity |-> 2,
     type |-> "limit", limit_price |-> 105 * PriceScale,
     stop_loss |-> 100 * PriceScale, take_profit |-> 110 * PriceScale],
    [account_id |-> "A1", symbol |-> "ETHUSD", side |-> "sell", quantity |-> 1,
     type |-> "limit", limit_price |-> 105 * PriceScale,
     stop_loss |-> 110 * PriceScale, take_profit |-> NULL] }

\* the smallest positive integer not in used
FreshId(used) ==
  CHOOSE i \in 1..(Cardinality(used) + 1) :
    i \notin used /\ \A j \in 1..(i - 1) : j \in used

VARIABLES
  now,            \* Date.now(), ms
  accounts,       \* tradeState.accounts: the live in-memory account objects
  store,          \* the accounts table of the relational store
  pendingOrders,  \* matchingEngine.pendingOrders
  openTrades,     \* tradeState.openTrades
  sessionPnL,     \* matchingEngine.sessionPnL
  latestPrices,   \* matchingEngine.latestPrices[symbol].price
  accountLocks,   \* matchingEngine.accountLocks: the unsettled fill body last chained per account
  fills,          \* the fill bodies chained by fillOrder that have not returned
  closes,         \* the closeTrade calls that have not returned
  ticks,          \* the price_ticks handlers and resetAccounts calls that have not returned
  detached,       \* account objects a handler holds that tradeState.accounts has replaced
  tickCount,      \* number of price_ticks messages received
  placed,         \* number of placeOrder calls
  recentOrders,   \* matchingEngine.recentOrders with the pending delete timers
  rejected,       \* ids of the orders an ORDER_REJECTED event was published for
  nextId,         \* uuidv4()
  orders,         \* the orders table of the relational store
  idem,           \* the idem:<key> entries of the KV store
  requests,       \* the POST /place-order handlers that have not responded
  responses,      \* the responses the gateway has sent
  submitted,      \* number of POST /place-order requests received
  tradeRows,      \* the trades table of the relational store
  tradeEvents,    \* the messages published on the trade_events channel
  placeLog,       \* the placeOrder calls made, each with its result
  evaluated,      \* the ticks evaluateOpenPositions has been called for
  throttled,      \* the ticks whose price broadcast the throttle has dropped
  TPS_BUCKET,     \* publisher.js TPS_BUCKET, the broadcast throttle window
  markets,        \* the placeOrder calls of market orders, each with its outcome
  clients,        \* publisher.js wss.clients, each with what it holds of the server
  sentLog,        \* the messages broadcast() was called with while a client was open
  priceBuffer,    \* publisher.js priceBuffer
  kvPrices,       \* the latest_prices hash of the KV store
  flushes,        \* the hset calls of flushPrices that have not returned, in order
  lastTick,       \* per symbol, the last trade of the feed the publisher accepted
  lastHistoryPush, \* publisher.js lastHistoryPush
  tickLists,      \* the ticks:<symbol> lists of the KV store, newest entry first
  pushes,         \* the saveTickHistoryThrottled calls that have not returned
  feedSockets,    \* the sockets to the upstream stream that have not closed
  feedTimers,     \* the pending setTimeout calls that reconnect the stream
  watchdogs,      \* the setInterval watchdogs of the stream
  lastMessageTime, \* part_018 lastMessageTime
  attempt,        \* the reconnects scheduled since a socket of the stream last opened
  connects,       \* number of sockets made for the stream
  reconnects,     \* the reconnects scheduled, each with its number and its delay
  ticksPublished, \* publisher.js ticksPublished: the trades of the feed accepted
  priceTicks,     \* the price_ticks messages published and not yet delivered
  executed,       \* the processTick calls made for accepted trades, in order
  partialFills,   \* the quantities the partial-fill functions have returned
  resetLog        \* the resetAccounts calls made, each with the balances it met and left

vars == <<now, accounts, store, pendingOrders, openTrades, sessionPnL,
          latestPrices, accountLocks, fills, closes, ticks, detached,
          tickCount, placed, recentOrders, rejected, nextId, orders, idem,
          requests, responses, submitted, tradeRows, tradeEvents, placeLog,
          evaluated, throttled, TPS_BUCKET, markets, clients, sentLog,
          priceBuffer, kvPrices, flushes, lastTick, lastHistoryPush,
          tickLists, pushes, feedSockets, feedTimers, watchdogs,
          lastMessageTime, attempt, connects, reconnects, ticksPublished,
          priceTicks, executed, partialFills, resetLog>>

\* the state of the order gateway
gateway == <<idem, requests, responses, submitted>>

\* the trade rows, the event channel, the call log and the throttle
book == <<tradeRows, tradeEvents, placeLog, evaluated, throttled, TPS_BUCKET>>

\* the WebSocket clients of the publisher
sockets == <<clients, sentLog>>

\* the price buffer of the publisher and the hash it is flushed to
kv == <<priceBuffer, kvPrices, flushes, lastTick>>

\* the connection to the upstream stream
upstream == <<feedSockets, feedTimers, watchdogs, lastMessageTime, attempt,
              connects, reconnects>>

\* the tick history of the publisher
history == <<lastHistoryPush, tickLists, pushes>>

\* the tick history and the upstream connection
feed == <<history, upstream>>

\* the price_ticks channel between the publisher and the engine
bus == <<ticksPublished, priceTicks, executed>>

\* the market orders in flight and the state of the publisher
wire == <<markets, sockets, kv, feed, bus, partialFills, resetLog>>

\* ------------------------------------------------------------ pure helpers

\* index.js 786-788 (closeTrade) and 585-587 (processTick)
PnlDelta(side, entry_price, closePrice, quantity) ==
  IF side = "buy"
    THEN (closePrice - entry_price) * quantity * tickValue
    ELSE (entry_price - closePrice) * quantity * tickValue

\* mutant: a closing commission is charged
NetPnL_ClosingCommission(trade, closePrice) ==
  PnlDelta(trade.side, trade.entry_price, closePrice, trade.quantity) + trade.pnl
    - commission * PriceScale * trade.quantity

\* index.js 789
NetPnL(trade, closePrice) ==
  PnlDelta(trade.side, trade.entry_price, closePrice, trade.quantity) + trade.pnl

\* riskEngine.js 115-119; exact for entry prices that are whole numbers
applySlippage(entryPrice, tickPrice, side, liquidityGap) ==
  LET base == entryPrice \div PriceScale
      slippage == IF liquidityGap > 0 THEN base + liquidityGap \div 4 ELSE base
  IN IF side = "buy" THEN tickPrice + slippage ELSE tickPrice - slippage

\* every pending order of the symbol is handed to fillOrder
FillEligible_AnyPrice(o, norm, price) == o.symbol = norm

\* index.js 597-600: the fill predicate of the limit-fill scan
FillEligible(o, norm, price) ==
  /\ o.symbol = norm
  /\ \/ (o.side = "buy" /\ price <= o.limit_price)
     \/ (o.side = "sell" /\ price >= o.limit_price)

\* the stop loss is triggered only by a price strictly beyond it
SLTPTriggered_StrictStop(t, norm, price, clock) ==
  /\ t.symbol = norm
  /\ ~(clock - t.time_opened < SLTP_GRACE_MS)
  /\ IF t.side = "buy"
       THEN \/ (t.stop_loss /= NULL /\ price < t.stop_loss)
            \/ (t.take_profit /= NULL /\ price >= t.take_profit)
       ELSE \/ (t.stop_loss /= NULL /\ price > t.stop_loss)
            \/ (t.take_profit /= NULL /\ price <= t.take_profit)

\* index.js 605-617: the SL/TP scan of processTick
SLTPTriggered(t, norm, price, clock) ==
  /\ t.symbol = norm
  /\ ~(clock - t.time_opened < SLTP_GRACE_MS)
  /\ IF t.side = "buy"
       THEN \/ (t.stop_loss /= NULL /\ price <= t.stop_loss)
            \/ (t.take_profit /= NULL /\ price >= t.take_profit)
       ELSE \/ (t.stop_loss /= NULL /\ price >= t.stop_loss)
            \/ (t.take_profit /= NULL /\ price <= t.take_profit)

\* riskEngine.js 210-227: the SL/TP scan of evaluateOpenPositions
RiskCloseReason(pos, symbol, tickPrice, clock) ==
  IF pos.symbol /= symbol THEN "none"
  ELSE IF clock - pos.time_opened < SLTP_GRACE_MS THEN "none"
  ELSE IF pos.stop_loss /= NULL /\
          ((pos.side = "buy" /\ tickPrice <= pos.stop_loss) \/
           (pos.side = "sell" /\ tickPrice >= pos.stop_loss)) THEN "SL Hit"
  ELSE IF pos.take_profit /= NULL /\
          ((pos.side = "buy" /\ tickPrice >= pos.take_profit) \/
           (pos.side = "sell" /\ tickPrice <= pos.take_profit)) THEN "TP Hit"
  ELSE "none"

\* riskEngine.js 161-196, given the accounts row the store returned
evaluateImmediateRisk(account, size) ==
  IF account.status \in {"blown", "suspended"} THEN "ACCOUNT_INACTIVE"
  ELSE IF size > maxLotsEvaluation THEN "MAX_LOT_SIZE"
  ELSE IF max_loss /= 0 /\ account.current_balance <= start_balance - max_loss
    THEN "MAX_LOSS"
  ELSE IF trail_drawdown /= 0 /\
          account.current_balance <=
            Max2(start_balance - trail_drawdown,
                 (IF account.peak_balance /= NULL THEN account.peak_balance
                  ELSE start_balance) - trail_drawdown)
    THEN "TRAILING_DRAWDOWN"
  ELSE "ok"

\* riskEngine.js 130-158, given the accounts row the store returned
preTradeRiskCheck(account, size) ==
  IF account.status \in {"blown", "suspended"} THEN "ACCOUNT_INACTIVE"
  ELSE IF size > maxLotsEvaluation THEN "MAX_LOT_SIZE"
  ELSE "ok"

\* index.js 713-714
Slippage(basePrice, prevPrice) ==
  LET gap == Abs(basePrice - (IF prevPrice /= NULL THEN prevPrice ELSE basePrice))
  IN IF gap > 0 THEN Min2(gap \div 5, maxSlippage * PriceScale) ELSE 0

\* index.js 716-718
ExecPrice(side, basePrice, prevPrice) ==
  IF side = "buy"
    THEN basePrice + spread * PriceScale + Slippage(basePrice, prevPrice)
    ELSE basePrice - spread * PriceScale - Slippage(basePrice, prevPrice)

\* index.js 723-725 with ENABLE_PARTIAL_FILLS = true (index.js 436): the
\* values of Math.max(1, Math.floor(q * r)) for r in [0.5, 1)
FillQtys(quantity) ==
  {Max2(1, k) : k \in (quantity \div 2)..(quantity - 1)}

\* a day in ms
DayMs == 86400000

\* index.js 441-443: the calendar day of a time, counted from the day of
\* time 0
todayStr(clock) == clock \div DayMs

\* ------------------------------------------------------------------ Init

\* index.js 460-471 (loadInitialData): the accounts rows found at boot, one
\* of a fresh account and one of an account that has reached its profit
\* target and carries a consistency flag
InitialRows ==
  { [status |-> "active", current_balance |-> start_balance,
     peak_balance |-> start_balance, trailing_dd_mode |-> "LIVE",
     total_profit |-> tp, best_day_profit |-> 0,
     consistency_flag |-> (tp /= 0), blown_reason |-> "none"] :
    tp \in {0, profit_target} }

\* index.js 476-477 (loadInitialData): the open trades found at boot; tick
\* is history: the tick whose scan handed the trade's order to fillOrder
InitialTrades ==
  { <<>>,
    << [id |-> 101, account_id |-> "A1", symbol |-> "ETHUSD", side |-> "buy",
        quantity |-> 1, entry_price |-> 101 * PriceScale,
        stop_loss |-> 100 * PriceScale, take_profit |-> 110 * PriceScale,
        time_opened |-> 0 - SLTP_GRACE_MS,
        pnl |-> 0 - commission * PriceScale, order_id |-> 100, tick |-> 0],
       [id |-> 103, account_id |-> "A1", symbol |-> "ETHUSD", side |-> "sell",
        quantity |-> 1, entry_price |-> 109 * PriceScale,
        stop_loss |-> 110 * PriceScale, take_profit |-> NULL,
        time_opened |-> 0 - SLTP_GRACE_MS,
        pnl |-> 0 - commission * PriceScale, order_id |-> 102, tick |-> 0] >> }

\* index.js 729-744 and 760: the trades row of an open trade
StoredTrade(trade) ==
  [id |-> trade.id, account_id |-> trade.account_id, is_open |-> TRUE,
   pnl |-> trade.pnl]

\* the account object a handler holds: none before evaluateOpenPositions has
\* captured the account list, then the live object of tradeState.accounts
\* (Live) or a detached one (its oid)
Live == 0
NoRef == [a \in AccountIds |-> 0 - 1]
\* publisher.js 503-505: a socket that is not connected
NoClient ==
  [readyState |-> "CLOSED", subscriptions |-> {}, bufferedAmount |-> 0,
   openTrades |-> {}, pendingOrders |-> {}]

\* publisher.js 199 and 511: a symbol with no entry
NoPrice == [price |-> NULL, ts |-> NULL]

NoWrite == [current_balance |-> 0, best_day_profit |-> 0, total_profit |-> 0]

Init ==
  /\ now = 0
  /\ \E row \in InitialRows :
       /\ accounts = [a \in AccountIds |-> row]
       /\ store = [a \in AccountIds |-> row]
       /\ sessionPnL = [a \in AccountIds |->
                          [day |-> todayStr(now), realized |-> 0,
                           bestDay |-> row.best_day_profit,
                           total |-> row.total_profit]]
  /\ pendingOrders = <<>>
  /\ openTrades \in InitialTrades
  /\ latestPrices = [s \in Symbols |-> NULL]
  /\ accountLocks = [a \in AccountIds |-> 0]
  /\ fills = {}
  /\ closes = {}
  /\ ticks = {}
  /\ detached = {}
  /\ tickCount = 0
  /\ placed = 0
  /\ recentOrders = {}
  /\ rejected = {}
  /\ nextId = 1
  /\ orders = {}
  /\ idem = {}
  /\ requests = {}
  /\ responses = {}
  /\ submitted = 0
  /\ tradeRows = {StoredTrade(openTrades[i]) : i \in DOMAIN openTrades}
  /\ tradeEvents = {[type |-> "TRADE_OPENED", trade_id |-> openTrades[i].id,
                     opened |-> FALSE] : i \in DOMAIN openTrades}
  /\ placeLog = {}
  /\ evaluated = {}
  /\ throttled = {}
  /\ TPS_BUCKET = [count |-> 0, ts |-> 0]
  /\ markets = {}
  /\ clients = [c \in ClientIds |-> NoClient]
  /\ sentLog = {}
  /\ priceBuffer = [s \in Symbols |-> NoPrice]
  /\ kvPrices = [s \in Symbols |-> NoPrice]
  /\ flushes = <<>>
  /\ lastTick = [s \in Symbols |-> NoPrice]
  /\ lastHistoryPush = <<>>
  /\ tickLists = [s \in Symbols |-> <<>>]
  /\ pushes = {}
  /\ feedSockets = {}
  /\ feedTimers = {}
  /\ watchdogs = {}
  /\ lastMessageTime = 0
  /\ attempt = 0
  /\ connects = 0
  /\ reconnects = <<>>
  /\ ticksPublished = 0
  /\ priceTicks = {}
  /\ executed = <<>>
  /\ partialFills = {}
  /\ resetLog = <<>>

\* ----------------------------------------------------------------- clock

\* time passes between two handlers
AdvanceTime ==
  /\ \E d \in TimeSteps : now + d <= MaxTime /\ now' = now + d
  /\ UNCHANGED <<book, gateway, orders, detached, accounts, store, pendingOrders, openTrades, sessionPnL,
                 latestPrices, accountLocks, fills, closes, ticks, tickCount,
                 placed, wire, recentOrders, rejected, nextId>>

\* ------------------------------------------------------------- fillOrder

\* index.js 704: the promise the fill body is chained behind; 0 is a settled
\* promise
LockOf(locks, account_id) == locks[account_id]

\* index.js 704-708: the body of the fill is chained behind the account's
\* previous one; behind a settled promise it starts at once and sets its
\* latency timer
NewFill(fs, order, basePrice, prevPrice, locks, tick) ==
  LET pred == LockOf(locks, order.account_id)
  IN [fid |-> FreshId({f.fid : f \in fs}), order |-> order,
      basePrice |-> basePrice, prevPrice |-> prevPrice, pred |-> pred,
      pc |-> IF pred = 0 THEN "latency" ELSE "queued",
      due |-> IF pred = 0 THEN now + EXECUTION_LATENCY_MS ELSE 0,
      risk |-> "none", trade |-> 0, remainingQty |-> 0, tick |-> tick]

\* the calls fillOrder(o, basePrice, prevPrice) for the orders of os, in order
RECURSIVE FillOrders(_, _, _, _, _, _)
FillOrders(fs, locks, os, basePrice, prevPrice, tick) ==
  IF os = <<>> THEN [fills |-> fs, accountLocks |-> locks]
  ELSE LET f == NewFill(fs, Head(os), basePrice, prevPrice, locks, tick)
       IN FillOrders(fs \cup {f},
                     [locks EXCEPT ![Head(os).account_id] = f.fid],
                     Tail(os), basePrice, prevPrice, tick)

\* the body of fill f returns and the body chained behind it stays queued
Release_KeepQueued(fs, f) == fs \ {f}

\* the body of fill f returns: its promise settles and the body chained
\* behind it starts
Release(fs, f) ==
  { IF g.pc = "queued" /\ g.pred = f.fid
      THEN [g EXCEPT !.pc = "latency", !.due = now + EXECUTION_LATENCY_MS,
                     !.pred = 0]
      ELSE g : g \in fs \ {f} }

Settle(locks, f) ==
  [locks EXCEPT ![f.order.account_id] = IF @ = f.fid THEN 0 ELSE @]

\* index.js 708-720: the timer has fired; the risk check reads the accounts
\* row, or the read fails and evaluateImmediateRisk answers
\* RISK_ENGINE_ERROR (riskEngine.js 192-195)
FillRisk(f) ==
  /\ f.pc = "latency"
  /\ now >= f.due
  /\ \E risk \in {evaluateImmediateRisk(store[f.order.account_id],
                                        f.order.quantity),
                   "RISK_ENGINE_ERROR"} :
       fills' = (fills \ {f}) \cup {[f EXCEPT !.pc = "risk", !.risk = risk]}
  /\ UNCHANGED <<book, gateway, orders, detached, now, accounts, store, pendingOrders, openTrades, sessionPnL,
                 latestPrices, accountLocks, closes, ticks, tickCount, placed, wire,
                 recentOrders, rejected, nextId>>

\* index.js 729-744
NewTrade(id, order, fillQty, execPrice, clock, tick) ==
  [id |-> id, account_id |-> order.account_id, symbol |-> order.symbol,
   side |-> order.side, quantity |-> fillQty, entry_price |-> execPrice,
   stop_loss |-> order.stop_loss, take_profit |-> order.take_profit,
   time_opened |-> clock, pnl |-> 0 - commission * PriceScale * fillQty,
   order_id |-> order.id, tick |-> tick]

\* the publish of the event is skipped
PublishTradeEvent_Skipped(evs, type, trade_id) == evs

\* index.js 751 and 805: an event of a trade is published on trade_events;
\* opened records whether the TRADE_OPENED of the trade is already there
PublishTradeEvent(evs, type, trade_id) ==
  evs \cup {[type |-> type, trade_id |-> trade_id,
             opened |-> \E e \in evs : /\ e.type = "TRADE_OPENED"
                                       /\ e.trade_id = trade_id]}

\* index.js 861-868: ORDER_REJECTED is published for the order
rejectOrder(rej, order) == rej \cup {order.id}

\* index.js 721-751: rejectOrder, or the trade is made, the order leaves the
\* pending list and the trade joins the open trades
FillCommit(f) ==
  LET order == f.order
  IN
  /\ f.pc = "risk"
  /\ IF f.risk /= "ok"
       THEN /\ fills' = Release(fills, f)
            /\ accountLocks' = Settle(accountLocks, f)
            /\ rejected' = rejectOrder(rejected, order)
            /\ UNCHANGED <<pendingOrders, openTrades, nextId, tradeEvents>>
       ELSE \E fillQty \in FillQtys(order.quantity) :
            LET trade == NewTrade(nextId, order, fillQty,
                                  ExecPrice(order.side, f.basePrice, f.prevPrice),
                                  now, f.tick)
            IN /\ pendingOrders' = SelectSeq(pendingOrders, LAMBDA o : o.id /= order.id)
               /\ openTrades' = Append(openTrades, trade)
               /\ nextId' = nextId + 1
               /\ fills' = (fills \ {f}) \cup
                    {[f EXCEPT !.pc = "persist", !.trade = trade.id,
                               !.remainingQty = order.quantity - fillQty]}
               /\ tradeEvents' = PublishTradeEvent(tradeEvents, "TRADE_OPENED", trade.id)
               /\ UNCHANGED <<accountLocks, rejected>>
  /\ UNCHANGED <<tradeRows, placeLog, evaluated, throttled, TPS_BUCKET, gateway, orders, detached, now, accounts, store, sessionPnL, latestPrices, closes,
                 ticks, tickCount, placed, wire, recentOrders>>

\* index.js 757-761: the status the fill writes to the row of its order
UpdateOrderStatus(os, id, remainingQty) ==
  { IF o.id = id
      THEN [o EXCEPT !.status = IF remainingQty > 0 THEN "partially_filled"
                                ELSE "filled"]
      ELSE o : o \in os }

\* the remainder is re-appended with the quantity of the order
restOrder_FullQuantity(order, id, remainingQty) == [order EXCEPT !.id = id]

\* index.js 770: the order of the remainder of a partial fill
restOrder(order, id, remainingQty) ==
  [order EXCEPT !.id = id, !.quantity = remainingQty]

\* index.js 756-777: the store rows are written, then the remainder of a
\* partial fill is appended to the pending list under a fresh id
FillFinish(f) ==
  /\ f.pc = "persist"
  /\ fills' = Release(fills, f)
  /\ accountLocks' = Settle(accountLocks, f)
  /\ IF f.remainingQty > 0
       THEN /\ pendingOrders' = Append(pendingOrders,
                  restOrder(f.order, nextId, f.remainingQty))
            /\ nextId' = nextId + 1
       ELSE UNCHANGED <<pendingOrders, nextId>>
  /\ tradeRows' = tradeRows \cup
       {[id |-> f.trade, account_id |-> f.order.account_id, is_open |-> TRUE,
         pnl |-> 0 - commission * PriceScale * (f.order.quantity - f.remainingQty)]}
  /\ orders' = UpdateOrderStatus(orders, f.order.id, f.remainingQty)
  /\ UNCHANGED <<tradeEvents, placeLog, evaluated, throttled, TPS_BUCKET, gateway, detached, now, accounts, store, openTrades, sessionPnL, latestPrices,
                 closes, ticks, tickCount, placed, wire, recentOrders, rejected>>

\* ------------------------------------------------------------ closeTrade

\* index.js 784-801: the closed record is computed from the trade object the
\* caller holds and the trade leaves the open list (removeOpenTrade)
NewClose(trade, closePrice, reason, src, tick) ==
  [trade |-> trade, closePrice |-> closePrice, reason |-> reason,
   netPnL |-> NetPnL(trade, closePrice), pc |-> "publish", src |-> src,
   tick |-> tick, at |-> now, write |-> NoWrite]

removeOpenTrade(ots, tradeId) == SelectSeq(ots, LAMBDA t : t.id /= tradeId)

\* the close price the caller passes: index.js 618 (the tick price),
\* riskEngine.js 230 and 317 (applySlippage)
ClosePrice(pos, t, src) ==
  IF src = "sltp" THEN t.price
  ELSE applySlippage(pos.entry_price, t.price, pos.side, 0)

\* the reason the caller passes: index.js 618, riskEngine.js 219-232 and 318
CloseReason(pos, t, src) ==
  IF src = "sltp" THEN "SLTP Trigger"
  ELSE IF src = "risk" THEN RiskCloseReason(pos, t.symbol, t.price, now)
  ELSE t.reason

\* the calls closeTrade(pos, price, reason) the handler of tick t makes for
\* the trades of ts, in order, each up to its first await
RECURSIVE CloseTrades(_, _, _, _, _)
CloseTrades(cs, ots, ts, t, src) ==
  IF ts = <<>> THEN [closes |-> cs, openTrades |-> ots]
  ELSE CloseTrades(cs \cup {NewClose(Head(ts), ClosePrice(Head(ts), t, src),
                                     CloseReason(Head(ts), t, src), src, t.seq)},
                   removeOpenTrade(ots, Head(ts).id),
                   Tail(ts), t, src)

\* index.js 803-806: every closeTrade started publishes TRADE_CLOSED for
\* its trade
PublishClosed(evs, cs) ==
  evs \cup {[type |-> "TRADE_CLOSED", trade_id |-> c.trade.id,
             opened |-> \E e \in evs : /\ e.type = "TRADE_OPENED"
                                       /\ e.trade_id = c.trade.id] : c \in cs}

\* the account objects some handler still holds
Collect(det, ts) ==
  {o \in det : \E t \in ts, a \in AccountIds : t.ref[a] = o.oid}

\* index.js 827-828: the session counters of the account, started again
\* from zero when those the engine holds are of another day
Session(sess, clock) ==
  IF sess.day /= todayStr(clock)
    THEN [day |-> todayStr(clock), realized |-> 0, bestDay |-> 0, total |-> 0]
    ELSE sess

\* index.js 824-840 and src/Dockerfile 66-69 (tradeState.updateAccount):
\* after the trade and order rows are written the live account object is
\* credited and the session counters advance; updateAccount replaces the
\* object by a copy, so a handler that has captured the account list keeps
\* the old object; the account update is sent to the store
CloseAccount(c) ==
  LET a == c.trade.account_id
      sess == Session(sessionPnL[a], now)
      realized == sess.realized + c.netPnL
      total == sess.total + c.netPnL
      bestDay == IF realized > sess.bestDay THEN realized ELSE sess.bestDay
      acc == [accounts[a] EXCEPT !.current_balance = @ + c.netPnL]
      oid == FreshId({o.oid : o \in detached})
  IN
  /\ c.pc = "publish"
  /\ accounts' = [accounts EXCEPT ![a] = acc]
  /\ sessionPnL' = [sessionPnL EXCEPT ![a] =
                      [day |-> sess.day, realized |-> realized,
                       bestDay |-> bestDay, total |-> total]]
  /\ ticks' = {IF t.ref[a] = Live THEN [t EXCEPT !.ref[a] = oid] ELSE t : t \in ticks}
  /\ detached' = Collect(detached \cup {[oid |-> oid, acc |-> acc]}, ticks')
  /\ closes' = (closes \ {c}) \cup
       {[c EXCEPT !.pc = "account",
                  !.write = [current_balance |-> acc.current_balance,
                             best_day_profit |-> bestDay,
                             total_profit |-> total]]}
  /\ tradeRows' = {IF r.id = c.trade.id
                     THEN [r EXCEPT !.is_open = FALSE, !.pnl = c.netPnL]
                     ELSE r : r \in tradeRows}
  /\ UNCHANGED <<tradeEvents, placeLog, evaluated, throttled, TPS_BUCKET, gateway, orders, now, store, pendingOrders, openTrades, latestPrices,
                 accountLocks, fills, tickCount, placed, wire, recentOrders,
                 rejected, nextId>>

\* every closeTrade the handler of tick k awaits has returned
AllDone(cs, k) == \A c \in cs : c.tick /= k

\* -------------------------------------------------- evaluateOpenPositions

PeakOr(acc) == IF acc.peak_balance /= NULL THEN acc.peak_balance ELSE start_balance

Await(pc, ai, newPeak, reason, flag) ==
  [pc |-> pc, ai |-> ai, newPeak |-> newPeak, reason |-> reason, flag |-> flag]

\* riskEngine.js 238-305: the account loop from a point of iteration ai up to
\* its next await; the result names the store call it is suspended in
RECURSIVE RunFrom(_, _, _, _)
RunFrom(snap, ai, stage, ddLevel) ==
  IF ai > Len(AccountList) THEN Await("done", ai, 0, "none", FALSE)
  ELSE
  LET acc == snap[AccountList[ai]]
  IN
  CASE stage = "top" ->
         IF acc.status = "blown" THEN RunFrom(snap, ai + 1, "top", 0)
         ELSE IF max_loss /= 0 /\ acc.current_balance <= start_balance - max_loss
           THEN Await("handleBreach", ai, 0, "MAX_LOSS", FALSE)
         ELSE IF trail_drawdown /= 0
           THEN IF acc.status = "passed" \/ acc.trailing_dd_mode = "FROZEN"
                  THEN RunFrom(snap, ai, "dd", PeakOr(acc) - trail_drawdown)
                  ELSE LET newPeak == Max2(PeakOr(acc), acc.current_balance)
                       IN IF newPeak /= PeakOr(acc)
                            THEN Await("peakUpdate", ai, newPeak, "none", FALSE)
                            ELSE RunFrom(snap, ai, "dd",
                                         Max2(start_balance - trail_drawdown,
                                              newPeak - trail_drawdown))
         ELSE RunFrom(snap, ai, "consistency", 0)
    [] stage = "dd" ->
         IF acc.current_balance <= ddLevel
           THEN Await("handleBreach", ai, 0, "TRAILING_DRAWDOWN", FALSE)
           ELSE RunFrom(snap, ai, "consistency", 0)
    [] stage = "consistency" ->
         LET consistencyViolated ==
               profit_target > 0 /\ acc.best_day_profit * 2 > profit_target
         IN IF consistencyViolated /\ ~acc.consistency_flag
              THEN Await("flagUpdate", ai, 0, "none", TRUE)
            ELSE IF ~consistencyViolated /\ acc.consistency_flag
              THEN Await("flagUpdate", ai, 0, "none", FALSE)
            ELSE RunFrom(snap, ai, "target", 0)
    [] stage = "target" ->
         IF acc.total_profit >= profit_target /\ acc.status \notin {"passed", "blown"}
           THEN IF acc.consistency_flag
                  THEN RunFrom(snap, ai + 1, "top", 0)
                  ELSE Await("passUpdate", ai, 0, "none", FALSE)
           ELSE RunFrom(snap, ai + 1, "top", 0)

\* the account objects the handler of tick t holds
View(t, accs, det) ==
  [a \in AccountIds |->
     IF t.ref[a] = Live THEN accs[a]
     ELSE (CHOOSE o \in det : o.oid = t.ref[a]).acc]

\* the handler of tick t continues the account loop
Continue(t, accs, det, ai, stage, ddLevel) ==
  LET r == RunFrom(View(t, accs, det), ai, stage, ddLevel)
  IN [t EXCEPT !.pc = r.pc, !.ai = r.ai, !.newPeak = r.newPeak,
               !.reason = r.reason, !.flag = r.flag]

\* the handlers that have not returned, after handler t has become u
Resume(ts, t, u) ==
  IF u.pc = "done" THEN ts \ {t} ELSE (ts \ {t}) \cup {u}

Segment(t, cs, ots) == [tick |-> t, closes |-> cs, openTrades |-> ots]

\* riskEngine.js 199-238: evaluateOpenPositions captures the account list
\* and starts, all at once, a closeTrade for every open trade of the symbol
\* whose SL or TP the tick has crossed; with none to close it enters the
\* account loop
evaluateOpenPositions(t, cs, ots, accs, det) ==
  LET hits == SelectSeq(ots,
                LAMBDA pos : RiskCloseReason(pos, t.symbol, t.price, now) /= "none")
      r == CloseTrades(cs, ots, hits, t, "risk")
      u == [t EXCEPT !.ref = [a \in AccountIds |-> Live]]
  IN IF hits = <<>>
       THEN Segment(Continue(u, accs, det, 1, "top", 0), cs, ots)
       ELSE Segment([u EXCEPT !.pc = "evalWait"], r.closes, r.openTrades)

\* the handler of tick t runs on from the point it is suspended at, up to
\* its next await of a closeTrade or of the store:
\* index.js 618 (the next closeTrade of the SL/TP loop), index.js 620
\* (evaluateOpenPositions), riskEngine.js 235-238 (the account loop after the
\* SL/TP closes) and riskEngine.js 242, 256, 274 (the next account after a
\* liquidation)
Proceed(t, cs, ots, accs, det) ==
  IF ~AllDone(cs, t.seq) THEN Segment(t, cs, ots)
  ELSE IF t.pc = "sltp" /\ t.toClose /= <<>>
    THEN LET r == CloseTrades(cs, ots, <<Head(t.toClose)>>, t, "sltp")
         IN Segment([t EXCEPT !.toClose = Tail(t.toClose)], r.closes, r.openTrades)
  ELSE IF t.pc = "sltp" THEN evaluateOpenPositions(t, cs, ots, accs, det)
  ELSE IF t.pc = "evalWait"
    THEN Segment(Continue(t, accs, det, 1, "top", 0), cs, ots)
  ELSE IF t.pc = "breachWait"
    THEN Segment(Continue(t, accs, det, t.ai + 1, "top", 0), cs, ots)
  ELSE Segment(t, cs, ots)

\* index.js 620: the handler has left the SL/TP loop only by calling
\* evaluateOpenPositions
Evaluated(ev, t) == IF t.pc /= "sltp" THEN ev \cup {t.seq} ELSE ev

\* ----------------------------------------------------------- processTick

\* index.js 569-620: the mark is written, every eligible pending order is
\* handed to fillOrder, the SL/TP scan picks the trades to close and the
\* handler runs up to its first await of a closeTrade or of the store
processTick(symbol, price) ==
  LET k == tickCount + 1
      marks == [latestPrices EXCEPT ![symbol] = price]
      prev == IF marks[symbol] /= NULL THEN marks[symbol] ELSE price
      toFill == SelectSeq(pendingOrders, LAMBDA o : FillEligible(o, symbol, price))
      r == FillOrders(fills, accountLocks, toFill, price, prev, k)
      toClose == SelectSeq(openTrades, LAMBDA t : SLTPTriggered(t, symbol, price, now))
      t == [seq |-> k, symbol |-> symbol, price |-> price, pc |-> "sltp",
            toClose |-> toClose, ai |-> 0, newPeak |-> 0, reason |-> "none",
            flag |-> FALSE, ref |-> NoRef]
      g == Proceed(t, closes, openTrades, accounts, detached)
  IN
  /\ tickCount < MaxTicks
  /\ tickCount' = k
  /\ latestPrices' = marks
  /\ fills' = r.fills
  /\ accountLocks' = r.accountLocks
  /\ closes' = g.closes
  /\ openTrades' = g.openTrades
  /\ ticks' = Resume(ticks \cup {t}, t, g.tick)
  /\ tradeEvents' = PublishClosed(tradeEvents, g.closes \ closes)
  /\ evaluated' = Evaluated(evaluated, g.tick)
  /\ UNCHANGED <<tradeRows, placeLog, gateway, orders, now, accounts, store,
                 pendingOrders, sessionPnL, detached, placed, markets,
                 recentOrders, rejected, nextId>>

\* index.js 526-531: a price_ticks message arrives and is handed to
\* processTick
TickArrive(symbol, price) ==
  /\ processTick(symbol, price)
  /\ UNCHANGED <<throttled, TPS_BUCKET, sockets, kv, feed, bus, resetLog, partialFills>>

\* a write to the account object the loop holds for account a
WriteAccounts(accs, t, a, field, value) ==
  IF t.ref[a] = Live THEN [accs EXCEPT ![a][field] = value] ELSE accs

WriteDetached(det, t, a, field, value) ==
  {IF o.oid = t.ref[a] THEN [o EXCEPT !.acc[field] = value] ELSE o : o \in det}

\* riskEngine.js 268-276: the store has the new peak; the loop writes it to
\* its account object and compares the balance with the drawdown floor
PeakUpdate(t) ==
  LET a == AccountList[t.ai]
      accs == WriteAccounts(accounts, t, a, "peak_balance", t.newPeak)
      det == WriteDetached(detached, t, a, "peak_balance", t.newPeak)
  IN
  /\ t.pc = "peakUpdate"
  /\ store' = [store EXCEPT ![a].peak_balance = t.newPeak]
  /\ accounts' = accs
  /\ ticks' = Resume(ticks, t,
       Continue(t, accs, det, t.ai, "dd",
                Max2(start_balance - trail_drawdown, t.newPeak - trail_drawdown)))
  /\ detached' = Collect(det, ticks')
  /\ UNCHANGED <<book, gateway, orders, now, pendingOrders, openTrades, sessionPnL, latestPrices,
                 accountLocks, fills, closes, tickCount, placed, wire, recentOrders,
                 rejected, nextId>>

\* the liquidation is started and the status is left unwritten
HandleBreach_CloseFirst(t) ==
  LET a == AccountList[t.ai]
      openForAcc == SelectSeq(openTrades, LAMBDA pos : pos.account_id = a)
      r == CloseTrades(closes, openTrades, openForAcc, t, "breach")
      g == Proceed([t EXCEPT !.pc = "breachWait"], r.closes, r.openTrades,
                   accounts, detached)
  IN
  /\ t.pc = "handleBreach"
  /\ closes' = g.closes
  /\ openTrades' = g.openTrades
  /\ ticks' = Resume(ticks, t, g.tick)
  /\ detached' = Collect(detached, ticks')
  /\ tradeEvents' = PublishClosed(tradeEvents, g.closes \ closes)
  /\ UNCHANGED <<tradeRows, placeLog, evaluated, throttled, TPS_BUCKET, gateway,
                 orders, now, store, accounts, pendingOrders, sessionPnL, latestPrices,
                 accountLocks, fills, tickCount, placed, wire, recentOrders,
                 rejected, nextId>>

\* riskEngine.js 311-319 (handleBreach): the store has status blown; a
\* closeTrade is started, all at once, for every open trade of the account
HandleBreach(t) ==
  LET a == AccountList[t.ai]
      openForAcc == SelectSeq(openTrades, LAMBDA pos : pos.account_id = a)
      r == CloseTrades(closes, openTrades, openForAcc, t, "breach")
      g == Proceed([t EXCEPT !.pc = "breachWait"], r.closes, r.openTrades,
                   accounts, detached)
  IN
  /\ t.pc = "handleBreach"
  /\ store' = [store EXCEPT ![a].status = "blown", ![a].blown_reason = t.reason]
  /\ closes' = g.closes
  /\ openTrades' = g.openTrades
  /\ ticks' = Resume(ticks, t, g.tick)
  /\ detached' = Collect(detached, ticks')
  /\ tradeEvents' = PublishClosed(tradeEvents, g.closes \ closes)
  /\ UNCHANGED <<tradeRows, placeLog, evaluated, throttled, TPS_BUCKET, gateway,
                 orders, now, accounts, pendingOrders, sessionPnL, latestPrices,
                 accountLocks, fills, tickCount, placed, wire, recentOrders,
                 rejected, nextId>>

\* riskEngine.js 285-295: the store has the consistency flag; the loop
\* writes it to its account object
FlagUpdate(t) ==
  LET a == AccountList[t.ai]
      accs == WriteAccounts(accounts, t, a, "consistency_flag", t.flag)
      det == WriteDetached(detached, t, a, "consistency_flag", t.flag)
  IN
  /\ t.pc = "flagUpdate"
  /\ store' = [store EXCEPT ![a].consistency_flag = t.flag]
  /\ accounts' = accs
  /\ ticks' = Resume(ticks, t, Continue(t, accs, det, t.ai, "target", 0))
  /\ detached' = Collect(det, ticks')
  /\ UNCHANGED <<book, gateway, orders, now, pendingOrders, openTrades, sessionPnL, latestPrices,
                 accountLocks, fills, closes, tickCount, placed, wire, recentOrders,
                 rejected, nextId>>

\* riskEngine.js 303: the store has status passed and the trailing
\* drawdown frozen; the account object of the loop is left as it was
PassUpdate(t) ==
  LET a == AccountList[t.ai]
  IN
  /\ t.pc = "passUpdate"
  /\ store' = [store EXCEPT ![a].status = "passed",
                            ![a].trailing_dd_mode = "FROZEN"]
  /\ ticks' = Resume(ticks, t,
                     Continue(t, accounts, detached, t.ai + 1, "top", 0))
  /\ detached' = Collect(detached, ticks')
  /\ UNCHANGED <<book, gateway, orders, now, accounts, pendingOrders, openTrades, sessionPnL,
                 latestPrices, accountLocks, fills, closes, tickCount, placed, wire,
                 recentOrders, rejected, nextId>>

\* index.js 840-855: the store applies the account update and closeTrade
\* returns; the handler that awaits it runs on
CloseFinish(c) ==
  LET a == c.trade.account_id
      rest == closes \ {c}
      waiting == {t \in ticks : t.seq = c.tick}
  IN
  /\ c.pc = "account"
  /\ store' = [store EXCEPT ![a].current_balance = c.write.current_balance,
                            ![a].best_day_profit = c.write.best_day_profit,
                            ![a].total_profit = c.write.total_profit]
  /\ IF waiting = {}
       THEN /\ closes' = rest
            /\ UNCHANGED <<openTrades, ticks, tradeEvents, evaluated>>
       ELSE LET t == CHOOSE t \in waiting : TRUE
                g == Proceed(t, rest, openTrades, accounts, detached)
            IN /\ closes' = g.closes
               /\ openTrades' = g.openTrades
               /\ ticks' = Resume(ticks, t, g.tick)
               /\ tradeEvents' = PublishClosed(tradeEvents, g.closes \ closes)
               /\ evaluated' = Evaluated(evaluated, g.tick)
  /\ detached' = Collect(detached, ticks')
  /\ UNCHANGED <<tradeRows, placeLog, throttled, TPS_BUCKET, gateway, orders, now, accounts, pendingOrders, sessionPnL, latestPrices,
                 accountLocks, fills, tickCount, placed, wire, recentOrders,
                 rejected, nextId>>

\* ------------------------------------------------------------ placeOrder

\* index.js 629
OrderHash(order) ==
  <<order.account_id, order.symbol, order.side, order.quantity, order.type>>

\* the order goes to the pre-trade check whether or not its hash is in
\* recentOrders
placeOrder_NoDuplicateCheck(order, key) ==
  LET hash == OrderHash(order)
      duplicate == \E e \in recentOrders : e.hash = hash
      riskCheck == preTradeRiskCheck(store[order.account_id], order.quantity)
      result == riskCheck
      newOrder == [id |-> nextId, account_id |-> order.account_id,
                   symbol |-> order.symbol, side |-> order.side,
                   quantity |-> order.quantity, type |-> order.type,
                   limit_price |-> order.limit_price,
                   stop_loss |-> order.stop_loss,
                   take_profit |-> order.take_profit]
  IN [result |-> result,
      recentOrders |-> IF duplicate THEN recentOrders
                       ELSE recentOrders \cup
                              {[hash |-> hash, due |-> now + DUPLICATE_ORDER_MS]},
      pendingOrders |-> IF result = "ok" THEN Append(pendingOrders, newOrder)
                        ELSE pendingOrders,
      orders |-> IF result = "ok"
                   THEN orders \cup {[id |-> nextId, idempotency_key |-> NoKey,
                                      key |-> key, status |-> "pending"]}
                   ELSE orders,
      nextId |-> IF result = "ok" THEN nextId + 1 ELSE nextId,
      placeLog |-> placeLog \cup
                     {[n |-> Cardinality(placeLog) + 1, hash |-> hash,
                       at |-> now, present |-> duplicate, result |-> result,
                       created |-> (result = "ok")]}]

\* index.js 626-635 and 672-697: the duplicate check, the pre-trade check
\* against the accounts row, and the limit order joins the pending list
\* under a fresh id with a row of its own, of status pending, in the orders
\* table; key is
\* history: the idempotency_key of the submission the row was written for;
\* the call is entered in placeLog with the time, whether the hash was in
\* recentOrders, the result and whether a pending order was created
placeOrder(order, key) ==
  LET hash == OrderHash(order)
      duplicate == \E e \in recentOrders : e.hash = hash
      riskCheck == preTradeRiskCheck(store[order.account_id], order.quantity)
      result == IF duplicate THEN "DUPLICATE_ORDER" ELSE riskCheck
      newOrder == [id |-> nextId, account_id |-> order.account_id,
                   symbol |-> order.symbol, side |-> order.side,
                   quantity |-> order.quantity, type |-> order.type,
                   limit_price |-> order.limit_price,
                   stop_loss |-> order.stop_loss,
                   take_profit |-> order.take_profit]
  IN [result |-> result,
      recentOrders |-> IF duplicate THEN recentOrders
                       ELSE recentOrders \cup
                              {[hash |-> hash, due |-> now + DUPLICATE_ORDER_MS]},
      pendingOrders |-> IF result = "ok" THEN Append(pendingOrders, newOrder)
                        ELSE pendingOrders,
      orders |-> IF result = "ok"
                   THEN orders \cup {[id |-> nextId, idempotency_key |-> NoKey,
                                      key |-> key, status |-> "pending"]}
                   ELSE orders,
      nextId |-> IF result = "ok" THEN nextId + 1 ELSE nextId,
      placeLog |-> placeLog \cup
                     {[n |-> Cardinality(placeLog) + 1, hash |-> hash,
                       at |-> now, present |-> duplicate, result |-> result,
                       created |-> (result = "ok")]}]

\* an order is handed to placeOrder
PlaceOrder(order) ==
  LET r == placeOrder(order, NoKey)
  IN
  /\ placed < MaxOrders
  /\ placed' = placed + 1
  /\ recentOrders' = r.recentOrders
  /\ pendingOrders' = r.pendingOrders
  /\ orders' = r.orders
  /\ nextId' = r.nextId
  /\ placeLog' = r.placeLog
  /\ UNCHANGED <<tradeRows, tradeEvents, evaluated, throttled, TPS_BUCKET, gateway, detached, now, accounts, store, openTrades,
                 sessionPnL, latestPrices, accountLocks, fills, closes, ticks,
                 tickCount, rejected, wire>>

\* index.js 632: the timer removes the hash from recentOrders
RecentExpire ==
  /\ \E e \in recentOrders : now >= e.due /\ recentOrders' = recentOrders \ {e}
  /\ UNCHANGED <<book, gateway, orders, detached, now, accounts, store, pendingOrders, openTrades, sessionPnL,
                 latestPrices, accountLocks, fills, closes, ticks, tickCount,
                 placed, wire, rejected, nextId>>

\* ------------------------------------------- placeOrder, market orders

\* the market orders a client may submit, as the gateway builds them
\* (part_007 162-177): no limit_price
MarketTemplates ==
  { [account_id |-> "A1", symbol |-> "ETHUSD", side |-> "buy", quantity |-> q,
     type |-> "market", limit_price |-> NULL,
     stop_loss |-> 100 * PriceScale, take_profit |-> 110 * PriceScale] :
    q \in {1, 2} }

\* index.js 883-891: the ETHUSD contract has convertToINR false
\* (part_003 26), so the price is returned as it is; usdInr is the fallback
\* rate of line 887
convertToINR == FALSE
usdInr == 83
convertPrice(symbol, price) == IF convertToINR THEN price * usdInr ELSE price

\* index.js 640-645 and 543-564: the prices the branch may find: the cached
\* mark, or with no mark what fetchPriceNow returns, a live price or nothing
\* (NULL); a mark is never older than PRICE_STALE_MS within MaxTime
CachedPrices(symbol) ==
  IF latestPrices[symbol] /= NULL THEN {latestPrices[symbol]}
  ELSE TickPrices \cup {NULL}

\* index.js 626-668: the duplicate check and the pre-trade check as for a
\* limit order; then the price is found, the row of the order is inserted
\* in the orders table with status filled, and the call awaits
\* evaluateImmediateRisk
placeMarketOrder(order, cached) ==
  LET hash == OrderHash(order)
      duplicate == \E e \in recentOrders : e.hash = hash
      riskCheck == preTradeRiskCheck(store[order.account_id], order.quantity)
      result == IF duplicate THEN "DUPLICATE_ORDER"
                ELSE IF riskCheck /= "ok" THEN riskCheck
                ELSE IF cached = NULL THEN "NO_LIVE_PRICE"
                ELSE "ok"
      execPrice == convertPrice(order.symbol, cached)
  IN [result |-> result,
      recentOrders |-> IF duplicate THEN recentOrders
                       ELSE recentOrders \cup
                              {[hash |-> hash, due |-> now + DUPLICATE_ORDER_MS]},
      orders |-> IF result = "ok"
                   THEN orders \cup {[id |-> nextId, idempotency_key |-> NoKey,
                                      key |-> NoKey, status |-> "filled"]}
                   ELSE orders,
      nextId |-> IF result = "ok" THEN nextId + 1 ELSE nextId,
      markets |-> markets \cup
                    {[orderId |-> IF result = "ok" THEN nextId ELSE NULL,
                      order |-> order, execPrice |-> execPrice,
                      price |-> cached,
                      pc |-> IF result = "ok" THEN "risk" ELSE "returned",
                      result |-> result]}]

\* a market order is handed to placeOrder
PlaceMarket(order) ==
  \E cached \in CachedPrices(order.symbol) :
    LET r == placeMarketOrder(order, cached)
    IN
    /\ placed < MaxOrders
    /\ placed' = placed + 1
    /\ recentOrders' = r.recentOrders
    /\ orders' = r.orders
    /\ nextId' = r.nextId
    /\ markets' = r.markets
    /\ latestPrices' = IF cached /= NULL
                         THEN [latestPrices EXCEPT ![order.symbol] = cached]
                         ELSE latestPrices
    /\ rejected' = IF r.result /= "ok"
                     THEN rejectOrder(rejected, [id |-> NULL]) ELSE rejected
    /\ UNCHANGED <<book, gateway, detached, now, accounts, store,
                   pendingOrders, openTrades, sessionPnL, accountLocks, fills,
                   closes, ticks, tickCount, sockets, kv, feed, bus, resetLog, partialFills>>

\* index.js 668-671: evaluateImmediateRisk answers from the accounts row, or
\* RISK_ENGINE_ERROR when the read fails; on failure rejectOrder publishes
\* ORDER_REJECTED and the call returns, otherwise the order goes to
\* fillOrder under the id of its row
MarketRisk(m) ==
  /\ m.pc = "risk"
  /\ \E risk \in {evaluateImmediateRisk(store[m.order.account_id],
                                        m.order.quantity),
                   "RISK_ENGINE_ERROR"} :
       LET result == risk
           order == [id |-> m.orderId, account_id |-> m.order.account_id,
                     symbol |-> m.order.symbol, side |-> m.order.side,
                     quantity |-> m.order.quantity, type |-> m.order.type,
                     limit_price |-> m.order.limit_price,
                     stop_loss |-> m.order.stop_loss,
                     take_profit |-> m.order.take_profit]
           f == NewFill(fills, order, m.execPrice, m.price, accountLocks, 0)
       IN /\ markets' = (markets \ {m}) \cup
                          {[m EXCEPT !.pc = "returned", !.result = result]}
          /\ IF result /= "ok"
               THEN /\ rejected' = rejectOrder(rejected, [id |-> NULL])
                    /\ UNCHANGED <<fills, accountLocks>>
               ELSE /\ fills' = fills \cup {f}
                    /\ accountLocks' =
                         [accountLocks EXCEPT ![order.account_id] = f.fid]
                    /\ UNCHANGED rejected
  /\ UNCHANGED <<book, gateway, orders, detached, now, accounts, store,
                 pendingOrders, openTrades, sessionPnL, latestPrices, closes,
                 ticks, tickCount, placed, recentOrders, nextId, sockets, kv, feed, bus, resetLog, partialFills>>

\* ------------------------------------------------------------------ Spec

Next ==
  \/ AdvanceTime
  \/ \E order \in OrderTemplates : PlaceOrder(order)
  \/ RecentExpire
  \/ \E s \in Symbols, p \in TickPrices : TickArrive(s, p)
  \/ \E f \in fills : FillRisk(f)
  \/ \E f \in fills : FillCommit(f)
  \/ \E f \in fills : FillFinish(f)
  \/ \E c \in closes : CloseAccount(c)
  \/ \E c \in closes : CloseFinish(c)
  \/ \E t \in ticks : PeakUpdate(t)
  \/ \E t \in ticks : HandleBreach(t)
  \/ \E t \in ticks : FlagUpdate(t)
  \/ \E t \in ticks : PassUpdate(t)

Spec == Init /\ [][Next]_vars

\* index.js 708: the latency timer of a fill body comes due
FillTimer ==
  /\ \E f \in fills : f.pc = "latency" /\ now < f.due /\ now' = f.due
  /\ UNCHANGED <<book, gateway, orders, detached, accounts, store,
                 pendingOrders, openTrades, sessionPnL, latestPrices,
                 accountLocks, fills, closes, ticks, tickCount, placed, wire,
                 recentOrders, rejected, nextId>>

\* the steps of the engine, the clock moved by the latency timers
NextFair ==
  \/ FillTimer
  \/ \E order \in OrderTemplates : PlaceOrder(order)
  \/ \E s \in Symbols, p \in TickPrices : TickArrive(s, p)
  \/ \E f \in fills : FillRisk(f)
  \/ \E f \in fills : FillCommit(f)
  \/ \E f \in fills : FillFinish(f)
  \/ \E c \in closes : CloseAccount(c)
  \/ \E c \in closes : CloseFinish(c)
  \/ \E t \in ticks : PeakUpdate(t)
  \/ \E t \in ticks : HandleBreach(t)
  \/ \E t \in ticks : FlagUpdate(t)
  \/ \E t \in ticks : PassUpdate(t)

\* timers fire and the stores answer: a fill body that can take its next
\* step takes it
SpecFair ==
  /\ Init
  /\ [][NextFair]_vars
  /\ WF_vars(FillTimer)
  /\ WF_vars(\E f \in fills : FillRisk(f))
  /\ WF_vars(\E f \in fills : FillCommit(f))
  /\ WF_vars(\E f \in fills : FillFinish(f))

\* the engine with market orders only; the timers of recentOrders are left
\* pending
NextMarket ==
  \/ AdvanceTime
  \/ \E order \in MarketTemplates : PlaceMarket(order)
  \/ \E m \in markets : MarketRisk(m)
  \/ \E s \in Symbols, p \in TickPrices : TickArrive(s, p)
  \/ \E f \in fills : FillRisk(f)
  \/ \E f \in fills : FillCommit(f)
  \/ \E f \in fills : FillFinish(f)
  \/ \E c \in closes : CloseAccount(c)
  \/ \E c \in closes : CloseFinish(c)
  \/ \E t \in ticks : PeakUpdate(t)
  \/ \E t \in ticks : HandleBreach(t)
  \/ \E t \in ticks : FlagUpdate(t)
  \/ \E t \in ticks : PassUpdate(t)

SpecMarket == Init /\ [][NextMarket]_vars

\* the prices of the feed around the stop loss and the take profit of the
\* trades found at boot: at a stop loss, between the two, at a take profit
\* and beyond it
SLTPPrices ==
  {100 * PriceScale, 105 * PriceScale, 110 * PriceScale, 111 * PriceScale}

\* the engine with the trades found at boot and no orders
NextSLTP ==
  \/ AdvanceTime
  \/ \E s \in Symbols, p \in SLTPPrices : TickArrive(s, p)
  \/ \E c \in closes : CloseAccount(c)
  \/ \E c \in closes : CloseFinish(c)
  \/ \E t \in ticks : PeakUpdate(t)
  \/ \E t \in ticks : HandleBreach(t)
  \/ \E t \in ticks : FlagUpdate(t)
  \/ \E t \in ticks : PassUpdate(t)

SpecSLTP == Init /\ [][NextSLTP]_vars

\* ------------------------------------------------------- the calendar day

\* the days the clock passes
MaxDays == 1

\* the clock passes midnight between two handlers
Midnight ==
  /\ todayStr(now) < MaxDays
  /\ now' = (todayStr(now) + 1) * DayMs
  /\ UNCHANGED <<book, gateway, orders, detached, accounts, store,
                 pendingOrders, openTrades, sessionPnL, latestPrices,
                 accountLocks, fills, closes, ticks, tickCount, placed, wire,
                 recentOrders, rejected, nextId>>

\* the engine with the trades found at boot, over a change of day
NextDay ==
  \/ Midnight
  \/ \E s \in Symbols, p \in TickPrices : TickArrive(s, p)
  \/ \E c \in closes : CloseAccount(c)
  \/ \E c \in closes : CloseFinish(c)
  \/ \E t \in ticks : PeakUpdate(t)
  \/ \E t \in ticks : HandleBreach(t)
  \/ \E t \in ticks : FlagUpdate(t)
  \/ \E t \in ticks : PassUpdate(t)

SpecDay == Init /\ [][NextDay]_vars

\* ------------------------------------------------------------ daily reset
\* src/backend/price-server/dailyReset.js: resetAccounts closes the open
\* trades of every account and restarts its daily counters

MaxResets == 2

\* the points a resetAccounts call is suspended at
ResetPcs == {"resetClose", "resetStore"}

\* dailyReset.js 17-23: the call has captured the account list and, for the
\* account at ai, the open trades of the account
ResetHandler(ai, ots) ==
  [seq |-> 0, symbol |-> NoSymbol, price |-> NULL, pc |-> "resetClose",
   toClose |-> SelectSeq(ots, LAMBDA t : t.account_id = AccountList[ai]),
   ai |-> ai, newPeak |-> 0, reason |-> "DAILY_RESET", flag |-> FALSE,
   ref |-> [a \in AccountIds |-> Live]]

\* src/Dockerfile 66-69 (tradeState.updateAccount) as dailyReset.js 55 calls
\* it: the account of the list becomes a copy that takes every field from
\* the object the caller holds
updateAccount(accs, a, held) == [accs EXCEPT ![a] = held]

\* dailyReset.js 24-27 and 47-57: the call r runs on to its next await: the
\* closeTrade of the next trade it has listed, at current_price, a field no
\* code sets, or else entry_price, a close no tick handler awaits; or, the
\* trades done, the account object it holds goes to updateAccount and the
\* store is sent the new day
ResetRun(r, cs, ots, accs, det, others) ==
  LET a == AccountList[r.ai]
      oid == FreshId({o.oid : o \in det})
  IN IF r.toClose /= <<>>
       THEN LET t == Head(r.toClose)
                c == NewClose(t, t.entry_price, "DAILY_RESET", "reset", 0 - 1)
            IN [tick |-> [r EXCEPT !.pc = "resetClose", !.toClose = Tail(@)],
                closes |-> cs \cup {c},
                openTrades |-> removeOpenTrade(ots, t.id),
                accounts |-> accs, detached |-> det, others |-> others,
                netPnL |-> c.netPnL]
       ELSE [tick |-> [r EXCEPT !.pc = "resetStore"],
             closes |-> cs, openTrades |-> ots,
             accounts |-> updateAccount(accs, a, View(r, accs, det)[a]),
             detached |-> det \cup {[oid |-> oid, acc |-> accs[a]]},
             others |-> {IF t.ref[a] = Live THEN [t EXCEPT !.ref[a] = oid]
                                            ELSE t : t \in others},
             netPnL |-> 0]

\* the net pnl of a close the call has started is added to what it has
\* force-closed for the account
Forced(log, r, g) ==
  [log EXCEPT ![Len(log)].forced[AccountList[r.ai]] = @ + g.netPnL]

\* dailyReset.js 13-27: the scheduled job calls resetAccounts, which runs to
\* its first await
ResetStart ==
  LET r == ResetHandler(1, openTrades)
      g == ResetRun(r, closes, openTrades, accounts, detached, ticks)
      entry == [before |-> [a \in AccountIds |-> accounts[a].current_balance],
                forced |-> [a \in AccountIds |-> 0],
                after |-> [a \in AccountIds |-> 0], done |-> FALSE]
  IN
  /\ Len(resetLog) < MaxResets
  /\ \A t \in ticks : t.pc \notin ResetPcs
  /\ resetLog' = Forced(Append(resetLog, entry), r, g)
  /\ closes' = g.closes
  /\ openTrades' = g.openTrades
  /\ accounts' = g.accounts
  /\ ticks' = g.others \cup {g.tick}
  /\ detached' = Collect(g.detached, ticks')
  /\ tradeEvents' = PublishClosed(tradeEvents, g.closes \ closes)
  /\ UNCHANGED <<tradeRows, placeLog, evaluated, throttled, TPS_BUCKET,
                 gateway, orders, now, store, pendingOrders, sessionPnL,
                 latestPrices, accountLocks, fills, tickCount, placed, markets,
                 sockets, kv, feed, bus, partialFills, recentOrders, rejected,
                 nextId>>

\* dailyReset.js 27-42: the closeTrade the call awaits has returned and the
\* audit row is written; the call goes to the next trade of its list
ResetStep(r) ==
  LET g == ResetRun(r, closes, openTrades, accounts, detached, ticks \ {r})
  IN
  /\ r.pc = "resetClose"
  /\ r.seq = 0
  /\ \A c \in closes : c.src /= "reset"
  /\ resetLog' = Forced(resetLog, r, g)
  /\ closes' = g.closes
  /\ openTrades' = g.openTrades
  /\ accounts' = g.accounts
  /\ ticks' = g.others \cup {g.tick}
  /\ detached' = Collect(g.detached, ticks')
  /\ tradeEvents' = PublishClosed(tradeEvents, g.closes \ closes)
  /\ UNCHANGED <<tradeRows, placeLog, evaluated, throttled, TPS_BUCKET,
                 gateway, orders, now, store, pendingOrders, sessionPnL,
                 latestPrices, accountLocks, fills, tickCount, placed, markets,
                 sockets, kv, feed, bus, partialFills, recentOrders, rejected,
                 nextId>>

\* dailyReset.js 57-83: the store has the new day of the account and the
\* audit row; the call goes to the next account or, after the last, returns
ResetFinish(r) ==
  LET next == [ResetHandler(r.ai + 1, openTrades) EXCEPT !.ref = r.ref]
      g == ResetRun(next, closes, openTrades, accounts, detached, ticks \ {r})
  IN
  /\ r.pc = "resetStore"
  /\ IF r.ai = Len(AccountList)
       THEN /\ resetLog' = [resetLog EXCEPT
                             ![Len(resetLog)].done = TRUE,
                             ![Len(resetLog)].after =
                               [a \in AccountIds |-> accounts[a].current_balance]]
            /\ ticks' = ticks \ {r}
            /\ detached' = Collect(detached, ticks')
            /\ UNCHANGED <<closes, openTrades, accounts, tradeEvents>>
       ELSE /\ resetLog' = Forced(resetLog, next, g)
            /\ closes' = g.closes
            /\ openTrades' = g.openTrades
            /\ accounts' = g.accounts
            /\ ticks' = g.others \cup {g.tick}
            /\ detached' = Collect(g.detached, ticks')
            /\ tradeEvents' = PublishClosed(tradeEvents, g.closes \ closes)
  /\ UNCHANGED <<tradeRows, placeLog, evaluated, throttled, TPS_BUCKET,
                 gateway, orders, now, store, pendingOrders, sessionPnL,
                 latestPrices, accountLocks, fills, tickCount, placed, markets,
                 sockets, kv, feed, bus, partialFills, recentOrders, rejected,
                 nextId>>

\* the engine with the trades found at boot and the daily reset, with no
\* tick
NextReset ==
  \/ AdvanceTime
  \/ Midnight
  \/ ResetStart
  \/ \E r \in ticks : ResetStep(r)
  \/ \E r \in ticks : ResetFinish(r)
  \/ \E c \in closes : CloseAccount(c)
  \/ \E c \in closes : CloseFinish(c)

SpecReset == Init /\ [][NextReset]_vars

\* ------------------------------------------------------------ the publisher
\* src/backend/price-server/publisher.js: the price server takes the trades
\* of the exchange feed, broadcasts each to its WebSocket clients through a
\* throttle and hands it to processTick of the engine it has loaded

\* publisher.js 245-254: a window older than a second is restarted; a
\* message over the limit of the window is dropped, any other is counted
\* and sent
throttledBroadcast(bucket, clock) ==
  LET b == IF clock - bucket.ts > 1000 THEN [count |-> 0, ts |-> clock] ELSE bucket
  IN IF b.count >= MAX_BROADCAST_TPS
       THEN [bucket |-> b, sent |-> FALSE]
       ELSE [bucket |-> [b EXCEPT !.count = @ + 1], sent |-> TRUE]

\* publisher.js 260: a client is sent nothing while its socket holds this
\* many bytes or more
SendBufferLimit == 1000000

\* publisher.js 405 and index.js 575: the price message of a tick
PriceMsg(symbol) ==
  [type |-> "price", symbol |-> symbol, openTrades |-> {}, pendingOrders |-> {}]

\* index.js 591: the unrealized pnl of an account, a message with no symbol
UpnlMsg ==
  [type |-> "account_upnl", symbol |-> NoSymbol, openTrades |-> {},
   pendingOrders |-> {}]

\* publisher.js 436: the order book of a symbol
OrderbookMsg(symbol) ==
  [type |-> "orderbook", symbol |-> symbol, openTrades |-> {},
   pendingOrders |-> {}]

\* index.js 509-518: the snapshot of the engine, a message with no symbol
\* that carries the pending orders and the open trades
broadcastSnapshot ==
  [type |-> "sync_state", symbol |-> NoSymbol,
   openTrades |-> {openTrades[i].id : i \in DOMAIN openTrades},
   pendingOrders |-> {pendingOrders[i].id : i \in DOMAIN pendingOrders}]

\* publisher.js 256-266: the clients a message is sent to: the open ones
\* whose subscriptions hold the symbol of the message and whose socket
\* buffers less than the limit; subscriptions is a Set from the connection on
\* (line 505)
Recipients(cl, msg) ==
  {c \in ClientIds : /\ cl[c].readyState = "OPEN"
                     /\ msg.symbol \in cl[c].subscriptions
                     /\ cl[c].bufferedAmount < SendBufferLimit}

\* what a client holds after a message: a snapshot replaces its open trades
\* and its pending orders
Receive(client, msg) ==
  IF msg.type = "sync_state"
    THEN [client EXCEPT !.openTrades = msg.openTrades,
                        !.pendingOrders = msg.pendingOrders]
    ELSE client

\* publisher.js 256-266: the message is sent to its recipients
broadcast(cl, msg) ==
  [c \in ClientIds |->
     IF c \in Recipients(cl, msg) THEN Receive(cl[c], msg) ELSE cl[c]]

\* the call of broadcast() is entered in the log with its time and the
\* clients the message was sent to, when a client is open
Logged(log, cl, msg, clock) ==
  IF \E c \in ClientIds : cl[c].readyState = "OPEN"
    THEN log \cup {[n |-> Cardinality(log) + 1, at |-> clock,
                    type |-> msg.type, symbol |-> msg.symbol,
                    to |-> Recipients(cl, msg)]}
    ELSE log

\* publisher.js 245-254: a message goes through the throttle and, when it
\* passes, to broadcast(); st holds the window, the clients and the log
Send(st, msg, clock) ==
  LET r == throttledBroadcast(st.bucket, clock)
  IN IF r.sent
       THEN [bucket |-> r.bucket, clients |-> broadcast(st.clients, msg),
             sentLog |-> Logged(st.sentLog, st.clients, msg, clock)]
       ELSE [st EXCEPT !.bucket = r.bucket]

\* the messages of a sequence go through the throttle one after another
RECURSIVE SendAll(_, _, _)
SendAll(st, msgs, clock) ==
  IF msgs = <<>> THEN st
  ELSE SendAll(Send(st, Head(msgs), clock), Tail(msgs), clock)

\* index.js 575 and 591: processTick broadcasts the price, then the
\* unrealized pnl of every account, through the throttle the publisher has
\* installed (publisher.js 466)
TickMessages(symbol) ==
  <<PriceMsg(symbol)>> \o [i \in 1..Len(AccountList) |-> UpnlMsg]

\* publisher.js 204-206: the price waits in the buffer for the next flush
bufferPrice(buf, symbol, price, ts) ==
  [buf EXCEPT ![symbol] = [price |-> price, ts |-> ts]]

\* the handler hands the trade to processTick only when its broadcast went out
startBinanceTrade_ReturnWhenThrottled(bucket, clock) ==
  LET r == throttledBroadcast(bucket, clock)
  IN [bucket |-> r.bucket, sent |-> r.sent, processTick |-> r.sent]

\* publisher.js 390-416: the handler of a trade of the feed broadcasts the
\* price through the throttle and then calls processTick
startBinanceTrade(bucket, clock) ==
  LET r == throttledBroadcast(bucket, clock)
  IN [bucket |-> r.bucket, sent |-> r.sent, processTick |-> TRUE]

\* publisher.js 202
HISTORY_INTERVAL_MS == 1000

\* publisher.js 196
TICK_HISTORY_LIMIT == 1000

\* publisher.js 220-223: the call for the tick seq starts a push when the
\* symbol has had no push or its last push is HISTORY_INTERVAL_MS old, and
\* awaits lpush
saveTickHistoryThrottled(ps, last, seq, symbol, price, ts) ==
  IF symbol \notin DOMAIN last \/ ts - last[symbol] >= HISTORY_INTERVAL_MS
    THEN ps \cup {[seq |-> seq, symbol |-> symbol, price |-> price, ts |-> ts,
                   pc |-> "lpush"]}
    ELSE ps

\* publisher.js 407: the tick of the trade id is published on price_ticks
publish(chan, id, symbol, price) ==
  chan \cup {[id |-> id, symbol |-> symbol, price |-> price]}

\* publisher.js 394-407: a trade of the feed arrives for a symbol that has a
\* contract: its price is buffered for the flush and broadcast, its push to
\* the history is started, the trade is handed to processTick and its tick
\* is published on price_ticks
PublisherTick(symbol, price) ==
  LET h == startBinanceTrade(TPS_BUCKET, now)
      st == Send([bucket |-> TPS_BUCKET, clients |-> clients,
                  sentLog |-> sentLog], PriceMsg(symbol), now)
      end == IF h.processTick THEN SendAll(st, TickMessages(symbol), now) ELSE st
  IN
  /\ throttled' = IF h.sent THEN throttled ELSE throttled \cup {tickCount + 1}
  /\ priceBuffer' = bufferPrice(priceBuffer, symbol, price, now)
  /\ lastTick' = [lastTick EXCEPT ![symbol] = [price |-> price, ts |-> now]]
  /\ pushes' = saveTickHistoryThrottled(pushes, lastHistoryPush, tickCount + 1,
                                        symbol, price, now)
  /\ TPS_BUCKET' = end.bucket
  /\ clients' = end.clients
  /\ sentLog' = end.sentLog
  /\ ticksPublished' = ticksPublished + 1
  /\ executed' = IF h.processTick THEN Append(executed, ticksPublished + 1)
                                  ELSE executed
  /\ priceTicks' = publish(priceTicks, ticksPublished + 1, symbol, price)
  /\ UNCHANGED <<kvPrices, flushes, lastHistoryPush, tickLists, upstream,
                 partialFills, resetLog>>
  /\ IF h.processTick
       THEN processTick(symbol, price)
       ELSE /\ tickCount < MaxTicks
            /\ tickCount' = tickCount + 1
            /\ UNCHANGED <<tradeRows, tradeEvents, placeLog, evaluated, gateway,
                           orders, now, accounts, store, pendingOrders,
                           openTrades, sessionPnL, latestPrices, accountLocks,
                           fills, closes, ticks, detached, placed, markets,
                           recentOrders, rejected, nextId>>

\* index.js 526-531: the subscription loadInitialData has started (line 490)
\* receives a tick the publisher has published and hands it to processTick,
\* which broadcasts through the throttle of the publisher
TickDeliver(m) ==
  LET end == SendAll([bucket |-> TPS_BUCKET, clients |-> clients,
                      sentLog |-> sentLog], TickMessages(m.symbol), now)
  IN
  /\ priceTicks' = priceTicks \ {m}
  /\ executed' = Append(executed, m.id)
  /\ TPS_BUCKET' = end.bucket
  /\ clients' = end.clients
  /\ sentLog' = end.sentLog
  /\ processTick(m.symbol, m.price)
  /\ UNCHANGED <<throttled, kv, feed, ticksPublished, partialFills, resetLog>>

\* publisher.js 418-440: an order book of the feed arrives and is broadcast
OrderbookTick(symbol) ==
  LET st == Send([bucket |-> TPS_BUCKET, clients |-> clients,
                  sentLog |-> sentLog], OrderbookMsg(symbol), now)
  IN
  /\ TPS_BUCKET' = st.bucket
  /\ TPS_BUCKET' /= TPS_BUCKET
  /\ clients' = st.clients
  /\ sentLog' = st.sentLog
  /\ UNCHANGED <<tradeRows, tradeEvents, placeLog, evaluated, throttled, gateway,
                 orders, now, accounts, store, pendingOrders, openTrades,
                 sessionPnL, latestPrices, accountLocks, fills, closes, ticks,
                 detached, tickCount, placed, markets, kv, feed, bus, resetLog, partialFills, recentOrders,
                 rejected, nextId>>

\* index.js 837: the message of an account update, with no symbol
AccountUpdateMsg ==
  [type |-> "account_update", symbol |-> NoSymbol, openTrades |-> {},
   pendingOrders |-> {}]

\* index.js 505-518, 804, 837 and publisher.js 466: the engine, a fill, a
\* close or a snapshot sends a message through the throttle
EngineBroadcast ==
  \E msg \in {broadcastSnapshot, AccountUpdateMsg} :
    LET st == Send([bucket |-> TPS_BUCKET, clients |-> clients,
                    sentLog |-> sentLog], msg, now)
    IN
    /\ TPS_BUCKET' = st.bucket
    /\ TPS_BUCKET' /= TPS_BUCKET
    /\ clients' = st.clients
    /\ sentLog' = st.sentLog
    /\ UNCHANGED <<tradeRows, tradeEvents, placeLog, evaluated, throttled,
                   gateway, orders, now, accounts, store, pendingOrders,
                   openTrades, sessionPnL, latestPrices, accountLocks, fills,
                   closes, ticks, detached, tickCount, placed, markets, kv, feed, bus, resetLog, partialFills,
                   recentOrders, rejected, nextId>>

\* publisher.js 503-520: a client connects: its subscriptions are an empty
\* Set and it is sent the welcome message, which holds the prices and the
\* order books and neither open trades nor pending orders
ClientConnect(c) ==
  /\ clients[c].readyState = "CLOSED"
  /\ clients' = [clients EXCEPT ![c] = [NoClient EXCEPT !.readyState = "OPEN"]]
  /\ UNCHANGED <<book, gateway, orders, now, accounts, store, pendingOrders,
                 openTrades, sessionPnL, latestPrices, accountLocks, fills,
                 closes, ticks, detached, tickCount, placed, markets, sentLog,
                 kv, feed, bus, resetLog, partialFills, recentOrders, rejected, nextId>>

\* publisher.js 523-530: an open client subscribes to a symbol that has a
\* contract
ClientSubscribe(c, symbol) ==
  /\ clients[c].readyState = "OPEN"
  /\ symbol \notin clients[c].subscriptions
  /\ clients' = [clients EXCEPT ![c].subscriptions = @ \cup {symbol}]
  /\ UNCHANGED <<book, gateway, orders, now, accounts, store, pendingOrders,
                 openTrades, sessionPnL, latestPrices, accountLocks, fills,
                 closes, ticks, detached, tickCount, placed, markets, sentLog,
                 kv, feed, bus, resetLog, partialFills, recentOrders, rejected, nextId>>

\* publisher.js 531-533: an open client unsubscribes from a symbol
ClientUnsubscribe(c, symbol) ==
  /\ clients[c].readyState = "OPEN"
  /\ symbol \in clients[c].subscriptions
  /\ clients' = [clients EXCEPT ![c].subscriptions = @ \ {symbol}]
  /\ UNCHANGED <<book, gateway, orders, now, accounts, store, pendingOrders,
                 openTrades, sessionPnL, latestPrices, accountLocks, fills,
                 closes, ticks, detached, tickCount, placed, markets, sentLog,
                 kv, feed, bus, resetLog, partialFills, recentOrders, rejected, nextId>>

\* publisher.js 519: the socket of a client closes; the client may connect
\* again
ClientClose(c) ==
  /\ clients[c].readyState = "OPEN"
  /\ clients' = [clients EXCEPT ![c] = NoClient]
  /\ UNCHANGED <<book, gateway, orders, now, accounts, store, pendingOrders,
                 openTrades, sessionPnL, latestPrices, accountLocks, fills,
                 closes, ticks, detached, tickCount, placed, markets, sentLog,
                 kv, feed, bus, resetLog, partialFills, recentOrders, rejected, nextId>>

\* the bytes the socket of an open client may hold unsent: none, or as many
\* as the limit of line 260
BufferLevels == {0, SendBufferLimit}

\* publisher.js 260: the socket of an open client fills up or drains
SocketBuffer(c, level) ==
  /\ clients[c].readyState = "OPEN"
  /\ clients[c].bufferedAmount /= level
  /\ clients' = [clients EXCEPT ![c].bufferedAmount = level]
  /\ UNCHANGED <<book, gateway, orders, now, accounts, store, pendingOrders,
                 openTrades, sessionPnL, latestPrices, accountLocks, fills,
                 closes, ticks, detached, tickCount, placed, markets, sentLog,
                 kv, feed, bus, resetLog, partialFills, recentOrders, rejected, nextId>>

NextPublisher ==
  \/ AdvanceTime
  \/ EngineBroadcast
  \/ \E s \in Symbols, p \in TickPrices : PublisherTick(s, p)
  \/ \E c \in closes : CloseAccount(c)
  \/ \E c \in closes : CloseFinish(c)
  \/ \E t \in ticks : PeakUpdate(t)
  \/ \E t \in ticks : HandleBreach(t)
  \/ \E t \in ticks : FlagUpdate(t)
  \/ \E t \in ticks : PassUpdate(t)

SpecPublisher == Init /\ [][NextPublisher]_vars

\* the publisher and the engine it has loaded, with the price_ticks channel
\* between them
NextBus ==
  \/ \E s \in Symbols, p \in TickPrices : PublisherTick(s, p)
  \/ \E m \in priceTicks : TickDeliver(m)
  \/ \E c \in closes : CloseAccount(c)
  \/ \E c \in closes : CloseFinish(c)
  \/ \E t \in ticks : PeakUpdate(t)
  \/ \E t \in ticks : HandleBreach(t)
  \/ \E t \in ticks : FlagUpdate(t)
  \/ \E t \in ticks : PassUpdate(t)

SpecBus == Init /\ [][NextBus]_vars

\* the clock of the throttle is observed in steps of 501 ms, so that two
\* observations less than a second apart fall in different windows
ThrottleSteps == {501}
MaxThrottleTime == 1002

ThrottleClock ==
  /\ \E d \in ThrottleSteps : now + d <= MaxThrottleTime /\ now' = now + d
  /\ UNCHANGED <<book, gateway, orders, accounts, store, pendingOrders,
                 openTrades, sessionPnL, latestPrices, accountLocks, fills,
                 closes, ticks, detached, tickCount, placed, wire,
                 recentOrders, rejected, nextId>>

\* the publisher with a client and the order books of the feed
NextThrottle ==
  \/ ThrottleClock
  \/ \E c \in ClientIds : ClientConnect(c)
  \/ \E c \in ClientIds, s \in Symbols : ClientSubscribe(c, s)
  \/ \E s \in Symbols : OrderbookTick(s)

SpecThrottle == Init /\ [][NextThrottle]_vars

\* the broadcasts of the feed and of the engine that are followed while a
\* client is open
MaxSent == 2

\* the ticks of the feed that are followed while a client is open
MaxClientTicks == 1

\* the publisher with a client that connects, subscribes and closes, the
\* ticks and the order books of the feed and the messages of the engine
NextClients ==
  \/ \E c \in ClientIds : ClientConnect(c)
  \/ \E c \in ClientIds : ClientClose(c)
  \/ \E c \in ClientIds, s \in Symbols : ClientSubscribe(c, s)
  \/ \E c \in ClientIds, s \in Symbols : ClientUnsubscribe(c, s)
  \/ \E c \in ClientIds, l \in BufferLevels : SocketBuffer(c, l)
  \/ Cardinality(sentLog) < MaxSent /\ EngineBroadcast
  \/ \E s \in Symbols : Cardinality(sentLog) < MaxSent /\ OrderbookTick(s)
  \/ \E s \in Symbols, p \in TickPrices :
       tickCount < MaxClientTicks /\ PublisherTick(s, p)
  \/ \E c \in closes : CloseAccount(c)
  \/ \E c \in closes : CloseFinish(c)
  \/ \E t \in ticks : PeakUpdate(t)
  \/ \E t \in ticks : HandleBreach(t)
  \/ \E t \in ticks : FlagUpdate(t)
  \/ \E t \in ticks : PassUpdate(t)

SpecClients == Init /\ [][NextClients]_vars

\* publisher.js 224: lpush puts the entry at the head of the list
lpush(lists, symbol, entry) ==
  [lists EXCEPT ![symbol] = <<entry>> \o @]

\* publisher.js 225: ltrim keeps the first TICK_HISTORY_LIMIT entries
ltrim(lists, symbol) ==
  [lists EXCEPT ![symbol] =
     IF Len(@) > TICK_HISTORY_LIMIT THEN SubSeq(@, 1, TICK_HISTORY_LIMIT) ELSE @]

\* publisher.js 226: the time of the tick is written to lastHistoryPush
SetLastPush(last, symbol, ts) ==
  [s \in DOMAIN last \cup {symbol} |-> IF s = symbol THEN ts ELSE last[s]]

\* publisher.js 224-225: the store answers lpush: the entry is in the list
\* and the call awaits ltrim
PushLpush(h) ==
  /\ h.pc = "lpush"
  /\ tickLists' = lpush(tickLists, h.symbol, [ts |-> h.ts, price |-> h.price])
  /\ pushes' = (pushes \ {h}) \cup {[h EXCEPT !.pc = "ltrim"]}
  /\ UNCHANGED <<book, gateway, orders, now, accounts, store, pendingOrders,
                 openTrades, sessionPnL, latestPrices, accountLocks, fills,
                 closes, ticks, detached, tickCount, placed, markets, bus, resetLog, partialFills, sockets,
                 kv, lastHistoryPush, upstream, recentOrders, rejected,
                 nextId>>

\* publisher.js 225-226: the store answers ltrim: the list is trimmed and
\* the call writes the time of its tick to lastHistoryPush
PushLtrim(h) ==
  /\ h.pc = "ltrim"
  /\ tickLists' = ltrim(tickLists, h.symbol)
  /\ lastHistoryPush' = SetLastPush(lastHistoryPush, h.symbol, h.ts)
  /\ pushes' = pushes \ {h}
  /\ UNCHANGED <<book, gateway, orders, now, accounts, store, pendingOrders,
                 openTrades, sessionPnL, latestPrices, accountLocks, fills,
                 closes, ticks, detached, tickCount, placed, markets, bus, resetLog, partialFills, sockets,
                 kv, upstream, recentOrders, rejected, nextId>>

\* publisher.js 227-229: lpush or ltrim fails: the error is logged and
\* lastHistoryPush is left as it is
PushFail(h) ==
  /\ pushes' = pushes \ {h}
  /\ UNCHANGED <<book, gateway, orders, now, accounts, store, pendingOrders,
                 openTrades, sessionPnL, latestPrices, accountLocks, fills,
                 closes, ticks, detached, tickCount, placed, markets, bus, resetLog, partialFills, sockets,
                 kv, lastHistoryPush, tickLists, upstream, recentOrders,
                 rejected, nextId>>

\* the publisher with the ticks of the feed and the pushes to the history
NextHistory ==
  \/ ThrottleClock
  \/ \E h \in pushes : PushLpush(h)
  \/ \E h \in pushes : PushLtrim(h)
  \/ \E h \in pushes : PushFail(h)
  \/ \E s \in Symbols, p \in TickPrices : PublisherTick(s, p)
  \/ \E c \in closes : CloseAccount(c)
  \/ \E c \in closes : CloseFinish(c)
  \/ \E t \in ticks : PeakUpdate(t)
  \/ \E t \in ticks : HandleBreach(t)
  \/ \E t \in ticks : FlagUpdate(t)
  \/ \E t \in ticks : PassUpdate(t)

SpecHistory == Init /\ [][NextHistory]_vars

\* ------------------------------------------------- the upstream streams
\* publisher.js 368-388 (resilientWS) and part_018 110-170 (connectBinance):
\* the socket to a stream of the exchange and its reconnection

\* the clock of the streams is observed every 5 s, the period of the
\* watchdog: a timer is over at the first observation at or after its end
FeedSteps == {5000}
MaxFeedTime == 20000

\* the sockets that are followed for a stream
MaxConnects == 3

FeedClock ==
  /\ \E d \in FeedSteps : now + d <= MaxFeedTime /\ now' = now + d
  /\ UNCHANGED <<book, gateway, orders, accounts, store, pendingOrders,
                 openTrades, sessionPnL, latestPrices, accountLocks, fills,
                 closes, ticks, detached, tickCount, placed, wire,
                 recentOrders, rejected, nextId>>

\* publisher.js 382: the delay of the reconnect after the n-th close in a
\* row
reconnectDelay(n) == 3000

\* publisher.js 370-371: new WebSocket(url)
NewSocket(socks, id) == socks \cup {[id |-> id, state |-> "CONNECTING"]}

\* the socket w in the given state
SetState(socks, w, state) ==
  (socks \ {w}) \cup {[w EXCEPT !.state = state]}

\* publisher.js 387 and 479: the feed is started: connect() makes the first
\* socket of the stream
FeedStart ==
  /\ connects = 0
  /\ connects' = 1
  /\ feedSockets' = NewSocket(feedSockets, 1)
  /\ UNCHANGED <<now, feedTimers, watchdogs, lastMessageTime, attempt,
                 reconnects>>
  /\ UNCHANGED <<book, gateway, orders, accounts, store, pendingOrders,
                 openTrades, sessionPnL, latestPrices, accountLocks, fills,
                 closes, ticks, detached, tickCount, placed, markets, bus, resetLog, partialFills, sockets,
                 kv, history, recentOrders, rejected, nextId>>

\* publisher.js 372-375: the socket opens
FeedOpen(w) ==
  /\ w.state = "CONNECTING"
  /\ feedSockets' = SetState(feedSockets, w, "OPEN")
  /\ attempt' = 0
  /\ UNCHANGED <<now, feedTimers, watchdogs, lastMessageTime, connects,
                 reconnects>>
  /\ UNCHANGED <<book, gateway, orders, accounts, store, pendingOrders,
                 openTrades, sessionPnL, latestPrices, accountLocks, fills,
                 closes, ticks, detached, tickCount, placed, markets, bus, resetLog, partialFills, sockets,
                 kv, history, recentOrders, rejected, nextId>>

\* publisher.js 383-386: an error of the socket: the handler closes it
FeedError(w) ==
  /\ w.state /= "CLOSING"
  /\ feedSockets' = SetState(feedSockets, w, "CLOSING")
  /\ UNCHANGED <<now, feedTimers, watchdogs, lastMessageTime, attempt,
                 connects, reconnects>>
  /\ UNCHANGED <<book, gateway, orders, accounts, store, pendingOrders,
                 openTrades, sessionPnL, latestPrices, accountLocks, fills,
                 closes, ticks, detached, tickCount, placed, markets, bus, resetLog, partialFills, sockets,
                 kv, history, recentOrders, rejected, nextId>>

\* publisher.js 377-382: the socket has closed: connect is set to run
\* after the delay
FeedClose(w) ==
  LET n == attempt + 1
      d == reconnectDelay(n)
  IN
  /\ feedSockets' = feedSockets \ {w}
  /\ attempt' = n
  /\ feedTimers' = feedTimers \cup {[n |-> n, delay |-> d, due |-> now + d]}
  /\ reconnects' = Append(reconnects, [n |-> n, delay |-> d])
  /\ UNCHANGED <<now, watchdogs, lastMessageTime, connects>>
  /\ UNCHANGED <<book, gateway, orders, accounts, store, pendingOrders,
                 openTrades, sessionPnL, latestPrices, accountLocks, fills,
                 closes, ticks, detached, tickCount, placed, markets, bus, resetLog, partialFills, sockets,
                 kv, history, recentOrders, rejected, nextId>>

\* publisher.js 370-371 and 382: the timer runs connect, which makes a new
\* socket
FeedTimer(t) ==
  /\ now >= t.due
  /\ connects < MaxConnects
  /\ connects' = connects + 1
  /\ feedTimers' = feedTimers \ {t}
  /\ feedSockets' = NewSocket(feedSockets, connects + 1)
  /\ UNCHANGED <<now, watchdogs, lastMessageTime, attempt, reconnects>>
  /\ UNCHANGED <<book, gateway, orders, accounts, store, pendingOrders,
                 openTrades, sessionPnL, latestPrices, accountLocks, fills,
                 closes, ticks, detached, tickCount, placed, markets, bus, resetLog, partialFills, sockets,
                 kv, history, recentOrders, rejected, nextId>>

\* a stream of the publisher
NextFeed ==
  \/ FeedClock
  \/ FeedStart
  \/ \E w \in feedSockets : FeedOpen(w)
  \/ \E w \in feedSockets : FeedError(w)
  \/ \E w \in feedSockets : FeedClose(w)
  \/ \E t \in feedTimers : FeedTimer(t)

SpecFeed == Init /\ [][NextFeed]_vars

\* part_018 15
HEARTBEAT_TIMEOUT == 15000

\* part_018 150 and 167: the delay of the reconnect and the period of the
\* watchdog
RECONNECT_MS == 5000
WATCHDOG_MS == 5000

\* part_018 110-168: connectBinance makes a socket for the stream and sets
\* a watchdog on it with setInterval; the interval is never cleared
connectBinance(socks, dogs, id, clock) ==
  [feedSockets |-> NewSocket(socks, id),
   watchdogs |-> dogs \cup {[id |-> id, ws |-> id, due |-> clock + WATCHDOG_MS]}]

\* part_018 42 and 170: the module is loaded: it writes the time to
\* lastMessageTime and calls connectBinance
CbStart ==
  LET r == connectBinance(feedSockets, watchdogs, 1, now)
  IN
  /\ connects = 0
  /\ connects' = 1
  /\ lastMessageTime' = now
  /\ feedSockets' = r.feedSockets
  /\ watchdogs' = r.watchdogs
  /\ UNCHANGED <<now, feedTimers, attempt, reconnects>>
  /\ UNCHANGED <<book, gateway, orders, accounts, store, pendingOrders,
                 openTrades, sessionPnL, latestPrices, accountLocks, fills,
                 closes, ticks, detached, tickCount, placed, markets, bus, resetLog, partialFills, sockets,
                 kv, history, recentOrders, rejected, nextId>>

\* part_018 118-121: the socket opens
CbOpen(w) ==
  /\ w.state = "CONNECTING"
  /\ feedSockets' = SetState(feedSockets, w, "OPEN")
  /\ lastMessageTime' = now
  /\ attempt' = 0
  /\ UNCHANGED <<now, feedTimers, watchdogs, connects, reconnects>>
  /\ UNCHANGED <<book, gateway, orders, accounts, store, pendingOrders,
                 openTrades, sessionPnL, latestPrices, accountLocks, fills,
                 closes, ticks, detached, tickCount, placed, markets, bus, resetLog, partialFills, sockets,
                 kv, history, recentOrders, rejected, nextId>>

\* part_018 123-146, 47 and 83: a message of an open socket: saveTick or
\* bufferOrderbook writes the time to lastMessageTime
CbMessage(w) ==
  /\ w.state = "OPEN"
  /\ lastMessageTime /= now
  /\ lastMessageTime' = now
  /\ UNCHANGED <<now, feedSockets, feedTimers, watchdogs, attempt, connects,
                 reconnects>>
  /\ UNCHANGED <<book, gateway, orders, accounts, store, pendingOrders,
                 openTrades, sessionPnL, latestPrices, accountLocks, fills,
                 closes, ticks, detached, tickCount, placed, markets, bus, resetLog, partialFills, sockets,
                 kv, history, recentOrders, rejected, nextId>>

\* part_018 153-156: an error of the socket: the handler closes it
CbError(w) ==
  /\ w.state /= "CLOSING"
  /\ feedSockets' = SetState(feedSockets, w, "CLOSING")
  /\ UNCHANGED <<now, feedTimers, watchdogs, lastMessageTime, attempt,
                 connects, reconnects>>
  /\ UNCHANGED <<book, gateway, orders, accounts, store, pendingOrders,
                 openTrades, sessionPnL, latestPrices, accountLocks, fills,
                 closes, ticks, detached, tickCount, placed, markets, bus, resetLog, partialFills, sockets,
                 kv, history, recentOrders, rejected, nextId>>

\* part_018 148-151: the socket has closed: connectBinance is set to run
\* after RECONNECT_MS
CbClose(w) ==
  LET n == attempt + 1
  IN
  /\ feedSockets' = feedSockets \ {w}
  /\ attempt' = n
  /\ feedTimers' = feedTimers \cup
       {[n |-> n, delay |-> RECONNECT_MS, due |-> now + RECONNECT_MS]}
  /\ reconnects' = Append(reconnects, [n |-> n, delay |-> RECONNECT_MS])
  /\ UNCHANGED <<now, watchdogs, lastMessageTime, connects>>
  /\ UNCHANGED <<book, gateway, orders, accounts, store, pendingOrders,
                 openTrades, sessionPnL, latestPrices, accountLocks, fills,
                 closes, ticks, detached, tickCount, placed, markets, bus, resetLog, partialFills, sockets,
                 kv, history, recentOrders, rejected, nextId>>

\* part_018 150: the timer runs connectBinance
CbTimer(t) ==
  LET r == connectBinance(feedSockets, watchdogs, connects + 1, now)
  IN
  /\ now >= t.due
  /\ connects < MaxConnects
  /\ connects' = connects + 1
  /\ feedTimers' = feedTimers \ {t}
  /\ feedSockets' = r.feedSockets
  /\ watchdogs' = r.watchdogs
  /\ UNCHANGED <<now, lastMessageTime, attempt, reconnects>>
  /\ UNCHANGED <<book, gateway, orders, accounts, store, pendingOrders,
                 openTrades, sessionPnL, latestPrices, accountLocks, fills,
                 closes, ticks, detached, tickCount, placed, markets, bus, resetLog, partialFills, sockets,
                 kv, history, recentOrders, rejected, nextId>>

\* part_018 163: terminate closes the socket of the watchdog if it has not
\* closed; its close event follows
terminate(socks, id) ==
  {IF w.id = id THEN [w EXCEPT !.state = "CLOSING"] ELSE w : w \in socks}

\* part_018 159-167: a watchdog fires: when no message has come for more
\* than HEARTBEAT_TIMEOUT it terminates its socket and calls connectBinance;
\* it fires again after WATCHDOG_MS
CbWatchdog(d) ==
  LET next == [d EXCEPT !.due = now + WATCHDOG_MS]
      rest == (watchdogs \ {d}) \cup {next}
      r == connectBinance(terminate(feedSockets, d.ws), rest, connects + 1, now)
  IN
  /\ now >= d.due
  /\ IF now - lastMessageTime > HEARTBEAT_TIMEOUT
       THEN /\ connects < MaxConnects
            /\ connects' = connects + 1
            /\ feedSockets' = r.feedSockets
            /\ watchdogs' = r.watchdogs
       ELSE /\ watchdogs' = rest
            /\ UNCHANGED <<connects, feedSockets>>
  /\ UNCHANGED <<now, feedTimers, lastMessageTime, attempt, reconnects>>
  /\ UNCHANGED <<book, gateway, orders, accounts, store, pendingOrders,
                 openTrades, sessionPnL, latestPrices, accountLocks, fills,
                 closes, ticks, detached, tickCount, placed, markets, bus, resetLog, partialFills, sockets,
                 kv, history, recentOrders, rejected, nextId>>

\* the stream of part_018
NextBinance ==
  \/ FeedClock
  \/ CbStart
  \/ \E w \in feedSockets : CbOpen(w)
  \/ \E w \in feedSockets : CbMessage(w)
  \/ \E w \in feedSockets : CbError(w)
  \/ \E w \in feedSockets : CbClose(w)
  \/ \E t \in feedTimers : CbTimer(t)
  \/ \E d \in watchdogs : CbWatchdog(d)

SpecBinance == Init /\ [][NextBinance]_vars

\* the hset calls of flushPrices that may be awaited at a time
MaxFlushes == 2

\* publisher.js 208-211 and 218: the timer of FLUSH_INTERVAL_MS fires and
\* flushPrices finds prices in the buffer: it calls hset with the fields the
\* buffer holds at the call and awaits the answer
FlushStart ==
  /\ \E s \in Symbols : priceBuffer[s] /= NoPrice
  /\ Len(flushes) < MaxFlushes
  /\ flushes' = Append(flushes, priceBuffer)
  /\ UNCHANGED <<book, gateway, orders, now, accounts, store, pendingOrders,
                 openTrades, sessionPnL, latestPrices, accountLocks, fills,
                 closes, ticks, detached, tickCount, placed, markets, sockets, feed, bus, resetLog, partialFills,
                 priceBuffer, kvPrices, lastTick, recentOrders, rejected,
                 nextId>>

\* the latest_prices hash after hset has written the fields of a call
hset(hash, fields) ==
  [s \in Symbols |-> IF fields[s] /= NoPrice THEN fields[s] ELSE hash[s]]

\* publisher.js 212: flushPrices deletes every key the buffer holds when
\* hset has answered
ClearBuffer(buf) == [s \in Symbols |-> NoPrice]

\* publisher.js 211-212: the store answers the oldest hset call: the fields
\* of the call are in the hash, and flushPrices empties the buffer
FlushDone ==
  /\ flushes /= <<>>
  /\ kvPrices' = hset(kvPrices, Head(flushes))
  /\ priceBuffer' = ClearBuffer(priceBuffer)
  /\ flushes' = Tail(flushes)
  /\ UNCHANGED <<book, gateway, orders, now, accounts, store, pendingOrders,
                 openTrades, sessionPnL, latestPrices, accountLocks, fills,
                 closes, ticks, detached, tickCount, placed, markets, sockets, feed, bus, resetLog, partialFills,
                 lastTick, recentOrders, rejected, nextId>>

\* publisher.js 213-215: the oldest hset call fails: the error is logged and
\* the buffer is left as it is
FlushFail ==
  /\ flushes /= <<>>
  /\ flushes' = Tail(flushes)
  /\ UNCHANGED <<book, gateway, orders, now, accounts, store, pendingOrders,
                 openTrades, sessionPnL, latestPrices, accountLocks, fills,
                 closes, ticks, detached, tickCount, placed, markets, sockets, feed, bus, resetLog, partialFills,
                 priceBuffer, kvPrices, lastTick, recentOrders, rejected,
                 nextId>>

\* the publisher with the ticks of the feed and the flush of the buffer
NextFlush ==
  \/ FlushStart
  \/ FlushDone
  \/ FlushFail
  \/ \E s \in Symbols, p \in TickPrices : PublisherTick(s, p)
  \/ \E c \in closes : CloseAccount(c)
  \/ \E c \in closes : CloseFinish(c)
  \/ \E t \in ticks : PeakUpdate(t)
  \/ \E t \in ticks : HandleBreach(t)
  \/ \E t \in ticks : FlagUpdate(t)
  \/ \E t \in ticks : PassUpdate(t)

\* the timer of line 218 keeps firing, and the store does not fail every
\* hset call for ever
SpecFlush ==
  /\ Init
  /\ [][NextFlush]_vars
  /\ WF_vars(FlushStart)
  /\ SF_vars(FlushDone)

\* ------------------------------------------- POST /place-order (gateway)

\* the request bodies a client submits: the same limit order under the same
\* idempotency key
IdempotencyKeys == {"k1"}
RequestBodies ==
  { [account_id |-> "A1", symbol |-> "ETHUSD", side |-> "buy", quantity |-> 2,
     type |-> "limit", limit_price |-> 105 * PriceScale,
     stop_loss |-> 100 * PriceScale, take_profit |-> 110 * PriceScale,
     idempotency_key |-> k] : k \in IdempotencyKeys }

\* part_007 204-212, 137, 145-148 and 131: the response of the handler
Respond(rs, r, status, order_id) ==
  rs \cup {[rid |-> r.rid, idempotency_key |-> r.body.idempotency_key,
            status |-> status, order_id |-> order_id]}

\* redis.get of idem:<key>: the value, if the entry has not expired
IdemGet(key) ==
  IF \E e \in idem : e.key = key /\ now < e.expires
    THEN (CHOOSE e \in idem : e.key = key).order_id
    ELSE NULL

\* part_007 139-143: select ... eq(idempotency_key) maybeSingle(): the row if
\* exactly one row matches, no data otherwise
MaybeSingle(key) ==
  LET rows == {o \in orders : o.idempotency_key = key}
  IN IF Cardinality(rows) = 1 THEN (CHOOSE o \in rows : TRUE).id ELSE NULL

\* part_007 68-129: the request passes validation and the handler awaits
\* preTradeRiskCheck
Submit(body) ==
  /\ submitted < MaxRequests
  /\ submitted' = submitted + 1
  /\ requests' = requests \cup
       {[rid |-> submitted + 1, body |-> body, pc |-> "risk", order_id |-> NULL]}
  /\ UNCHANGED <<book, now, accounts, store, pendingOrders, openTrades, sessionPnL,
                 latestPrices, accountLocks, fills, closes, ticks, detached,
                 tickCount, placed, wire, recentOrders, rejected, nextId, orders,
                 idem, responses>>

\* part_007 129-135: the accounts row arrives; the handler answers with the
\* error or asks the KV store for idem:<key>
GatewayRisk(r) ==
  LET riskCheck == preTradeRiskCheck(store[r.body.account_id], r.body.quantity)
  IN
  /\ r.pc = "risk"
  /\ IF riskCheck = "ok"
       THEN /\ requests' = (requests \ {r}) \cup {[r EXCEPT !.pc = "get"]}
            /\ UNCHANGED responses
       ELSE /\ requests' = requests \ {r}
            /\ responses' = Respond(responses, r, riskCheck, NULL)
  /\ UNCHANGED <<book, now, accounts, store, pendingOrders, openTrades, sessionPnL,
                 latestPrices, accountLocks, fills, closes, ticks, detached,
                 tickCount, placed, wire, recentOrders, rejected, nextId, orders,
                 idem, submitted>>

\* part_007 135-143: the KV store answers; a hit is answered as a duplicate
\* with the stored id, otherwise the handler queries the orders table
GatewayIdemGet(r) ==
  LET dup == IdemGet(r.body.idempotency_key)
  IN
  /\ r.pc = "get"
  /\ IF dup /= NULL
       THEN /\ requests' = requests \ {r}
            /\ responses' = Respond(responses, r, "duplicate", dup)
       ELSE /\ requests' = (requests \ {r}) \cup {[r EXCEPT !.pc = "select"]}
            /\ UNCHANGED responses
  /\ UNCHANGED <<book, now, accounts, store, pendingOrders, openTrades, sessionPnL,
                 latestPrices, accountLocks, fills, closes, ticks, detached,
                 tickCount, placed, wire, recentOrders, rejected, nextId, orders,
                 idem, submitted>>

\* part_007 139-183: the orders table answers; an existing row is answered
\* as a duplicate with its id, otherwise the handler builds the order under
\* a fresh id and sends the insert
GatewayIdemSelect(r) ==
  LET existingOrder == MaybeSingle(r.body.idempotency_key)
  IN
  /\ r.pc = "select"
  /\ IF existingOrder /= NULL
       THEN /\ requests' = requests \ {r}
            /\ responses' = Respond(responses, r, "duplicate", existingOrder)
            /\ UNCHANGED nextId
       ELSE /\ requests' = (requests \ {r}) \cup
                 {[r EXCEPT !.pc = "insert", !.order_id = nextId]}
            /\ nextId' = nextId + 1
            /\ UNCHANGED responses
  /\ UNCHANGED <<book, now, accounts, store, pendingOrders, openTrades, sessionPnL,
                 latestPrices, accountLocks, fills, closes, ticks, detached,
                 tickCount, placed, wire, recentOrders, rejected, orders, idem,
                 submitted>>

\* part_007 183-192: the row is in the orders table; after the audit log the
\* handler calls placeOrder
GatewayInsert(r) ==
  /\ r.pc = "insert"
  /\ orders' = orders \cup
       {[id |-> r.order_id, idempotency_key |-> r.body.idempotency_key,
         key |-> r.body.idempotency_key, status |-> "pending"]}
  /\ requests' = (requests \ {r}) \cup {[r EXCEPT !.pc = "place"]}
  /\ UNCHANGED <<book, now, accounts, store, pendingOrders, openTrades, sessionPnL,
                 latestPrices, accountLocks, fills, closes, ticks, detached,
                 tickCount, placed, wire, recentOrders, rejected, nextId, idem,
                 responses, submitted>>

\* part_007 192-197: placeOrder has returned; the handler sends the set of
\* idem:<key>
GatewayPlace(r) ==
  LET order == [account_id |-> r.body.account_id, symbol |-> r.body.symbol,
                side |-> r.body.side, quantity |-> r.body.quantity,
                type |-> r.body.type, limit_price |-> r.body.limit_price,
                stop_loss |-> r.body.stop_loss,
                take_profit |-> r.body.take_profit]
      p == placeOrder(order, r.body.idempotency_key)
  IN
  /\ r.pc = "place"
  /\ recentOrders' = p.recentOrders
  /\ pendingOrders' = p.pendingOrders
  /\ orders' = p.orders
  /\ nextId' = p.nextId
  /\ requests' = (requests \ {r}) \cup {[r EXCEPT !.pc = "set"]}
  /\ placeLog' = p.placeLog
  /\ UNCHANGED <<tradeRows, tradeEvents, evaluated, throttled, TPS_BUCKET, now, accounts, store, openTrades, sessionPnL, latestPrices,
                 accountLocks, fills, closes, ticks, detached, tickCount,
                 placed, wire, rejected, idem, responses, submitted>>

\* part_007 197-212: idem:<key> holds the order id for IDEM_TTL_MS, and the
\* handler answers success with the id of the order it built
GatewayIdemSet(r) ==
  /\ r.pc = "set"
  /\ idem' = {e \in idem : e.key /= r.body.idempotency_key} \cup
       {[key |-> r.body.idempotency_key, order_id |-> r.order_id,
         expires |-> now + IDEM_TTL_MS]}
  /\ requests' = requests \ {r}
  /\ responses' = Respond(responses, r, "success", r.order_id)
  /\ UNCHANGED <<book, now, accounts, store, pendingOrders, openTrades, sessionPnL,
                 latestPrices, accountLocks, fills, closes, ticks, detached,
                 tickCount, placed, wire, recentOrders, rejected, nextId, orders,
                 submitted>>

NextGateway ==
  \/ AdvanceTime
  \/ RecentExpire
  \/ \E body \in RequestBodies : Submit(body)
  \/ \E r \in requests : GatewayRisk(r)
  \/ \E r \in requests : GatewayIdemGet(r)
  \/ \E r \in requests : GatewayIdemSelect(r)
  \/ \E r \in requests : GatewayInsert(r)
  \/ \E r \in requests : GatewayPlace(r)
  \/ \E r \in requests : GatewayIdemSet(r)

SpecGateway == Init /\ [][NextGateway]_vars

\* ------------------------------------------- POST /place-order, lot size

\* part_003 21-22: the lot of the ETHUSD contract, qtyStep 0.01 and minQty
\* 0.01, in units of 1 / QtyScale of a lot
QtyScale == 100
qtyStep == 1
minQty == 1

\* the quantity passes when it is exactly minQty too
LotSizeCheck_AboveMinOnly(quantity) ==
  IF quantity <= minQty \/ quantity % qtyStep /= 0
    THEN "INVALID_LOT_SIZE" ELSE "ok"

\* part_007 124-126 (and riskEngine.js 189-190 of the root engine): the
\* lot-size check; the remainder is exact for the quantities minQty and
\* minQty - qtyStep, 0.01 % 0.01 and 0 % 0.01 being 0 in floating point
LotSizeCheck(quantity) ==
  IF quantity < minQty \/ quantity % qtyStep /= 0
    THEN "INVALID_LOT_SIZE" ELSE "ok"

\* the requests at the edge of the lot size, quantities in units of
\* 1 / QtyScale of a lot: one of minQty under key k1 and one of
\* minQty - qtyStep under key k2; both are below the maxLots of
\* preTradeRiskCheck in either unit
LotBodies ==
  { [account_id |-> "A1", symbol |-> "ETHUSD", side |-> "buy",
     quantity |-> b.quantity, type |-> "limit",
     limit_price |-> 105 * PriceScale, stop_loss |-> 100 * PriceScale,
     take_profit |-> 110 * PriceScale, idempotency_key |-> b.key] :
    b \in {[quantity |-> minQty, key |-> "k1"],
           [quantity |-> minQty - qtyStep, key |-> "k2"]} }

\* part_007 68-129: the request has its fields, a symbol of the whitelist
\* and a contract that trades around the clock (part_003 28); it is
\* answered INVALID_LOT_SIZE when the lot-size check fails, otherwise the
\* handler awaits preTradeRiskCheck
SubmitLot(body) ==
  LET r == [rid |-> submitted + 1, body |-> body, pc |-> "risk",
            order_id |-> NULL]
      lot == LotSizeCheck(body.quantity)
  IN
  /\ submitted < MaxRequests
  /\ submitted' = submitted + 1
  /\ IF lot /= "ok"
       THEN /\ responses' = Respond(responses, r, lot, NULL)
            /\ UNCHANGED requests
       ELSE /\ requests' = requests \cup {r}
            /\ UNCHANGED responses
  /\ UNCHANGED <<book, now, accounts, store, pendingOrders, openTrades, sessionPnL,
                 latestPrices, accountLocks, fills, closes, ticks, detached,
                 tickCount, placed, wire, recentOrders, rejected, nextId, orders,
                 idem>>

NextLot ==
  \/ AdvanceTime
  \/ RecentExpire
  \/ \E body \in LotBodies : SubmitLot(body)
  \/ \E r \in requests : GatewayRisk(r)
  \/ \E r \in requests : GatewayIdemGet(r)
  \/ \E r \in requests : GatewayIdemSelect(r)
  \/ \E r \in requests : GatewayInsert(r)
  \/ \E r \in requests : GatewayPlace(r)
  \/ \E r \in requests : GatewayIdemSet(r)

SpecLot == Init /\ [][NextLot]_vars

\* ------------------------------------------------ partial fills, quantities

\* the largest order quantity, in units of 1 / QtyScale of a lot
MaxQty == 250

\* the values of Math.random() * 0.5 + 0.5 and of partialFillRatio, in
\* hundredths
Ratios == 50..99

\* the order quantities the lot-size check lets through
LotQtys == {q \in 1..MaxQty : LotSizeCheck(q) = "ok"}

\* Math.floor(size * ratio), a whole number of lots, in units of
\* 1 / QtyScale of a lot
FloorLots(size, ratio) == ((size * ratio) \div (100 * QtyScale)) * QtyScale

\* index.js 723-727 with ENABLE_PARTIAL_FILLS = true (index.js 436): the
\* quantity of the trade and the remainder of the order; the 1 of Math.max
\* is one lot
fillQty(quantity, ratio) ==
  LET filled == Max2(1 * QtyScale, FloorLots(quantity, ratio))
  IN [fn |-> "fillOrder", quantity |-> quantity, filled |-> filled,
      remaining |-> quantity - filled]

\* riskEngine.js 122-127
applyPartialFill(size, allowPartialFills, ratio) ==
  IF ~allowPartialFills
    THEN [fn |-> "applyPartialFill", quantity |-> size, filled |-> size,
          remaining |-> 0]
    ELSE LET filled == Max2(1 * QtyScale, FloorLots(size, ratio))
         IN [fn |-> "applyPartialFill", quantity |-> size, filled |-> filled,
             remaining |-> size - filled]

MaxPartials == 1

\* index.js 723-727: a fill body computes the quantity it fills of an order
\* that has passed the lot-size check
FillQuantity(q, r) ==
  /\ Cardinality(partialFills) < MaxPartials
  /\ partialFills' = partialFills \cup {fillQty(q, r)}
  /\ UNCHANGED <<book, gateway, orders, now, accounts, store, pendingOrders,
                 openTrades, sessionPnL, latestPrices, accountLocks, fills,
                 closes, ticks, detached, tickCount, placed, markets, sockets,
                 kv, feed, bus, resetLog, recentOrders, rejected, nextId>>

\* riskEngine.js 122-127: applyPartialFill is called for an order that has
\* passed the lot-size check
ApplyPartialFill(q, allow, r) ==
  /\ Cardinality(partialFills) < MaxPartials
  /\ partialFills' = partialFills \cup {applyPartialFill(q, allow, r)}
  /\ UNCHANGED <<book, gateway, orders, now, accounts, store, pendingOrders,
                 openTrades, sessionPnL, latestPrices, accountLocks, fills,
                 closes, ticks, detached, tickCount, placed, markets, sockets,
                 kv, feed, bus, resetLog, recentOrders, rejected, nextId>>

NextPartial ==
  \/ \E q \in LotQtys, r \in Ratios : FillQuantity(q, r)
  \/ \E q \in LotQtys, allow \in BOOLEAN, r \in Ratios :
       ApplyPartialFill(q, allow, r)

SpecPartial == Init /\ [][NextPartial]_vars

\* ------------------------------------ the root engine (src/matchingEngine.js)

\* symbolMap.js 18-30: the BANKNIFTY contract
LegacySymbols == {"BANKNIFTY"}
BANKNIFTY_tickValue == 25
BANKNIFTY_commission == 50
BANKNIFTY_spread == 1
BANKNIFTY_maxLots == 10

\* accounts row, the column that never changes
max_intraday_loss == 100 * PriceScale

\* orders a client may pass to placeOrder
LegacyOrders ==
  { [account_id |-> "A1", symbol |-> "BANKNIFTY", side |-> "buy", size |-> 2,
     type |-> "limit", limit_price |-> 105 * PriceScale,
     stop_loss |-> 100 * PriceScale, take_profit |-> 110 * PriceScale],
    [account_id |-> "A1", symbol |-> "BANKNIFTY", side |-> "sell", size |-> 1,
     type |-> "limit", limit_price |-> 105 * PriceScale,
     stop_loss |-> 110 * PriceScale, take_profit |-> NULL] }

\* matchingEngine.js 57-62 (loadInitialData): the open trades found at boot
LegacyTrades ==
  { <<>>,
    << [id |-> 101, account_id |-> "A1", symbol |-> "BANKNIFTY",
        side |-> "buy", quantity |-> 1, entry_price |-> 101 * PriceScale,
        stop_loss |-> 100 * PriceScale, take_profit |-> 110 * PriceScale,
        time_opened |-> 0 - SLTP_GRACE_MS,
        pnl |-> 0 - BANKNIFTY_commission * PriceScale],
       [id |-> 103, account_id |-> "A1", symbol |-> "BANKNIFTY",
        side |-> "sell", quantity |-> 1, entry_price |-> 109 * PriceScale,
        stop_loss |-> 110 * PriceScale, take_profit |-> NULL,
        time_opened |-> 0 - SLTP_GRACE_MS,
        pnl |-> 0 - BANKNIFTY_commission * PriceScale] >> }

\* matchingEngine.js 34-68 (loadInitialData): the engine after boot
InitLegacy ==
  /\ now = 0
  /\ accounts = [a \in AccountIds |->
                   [status |-> "active", current_balance |-> start_balance,
                    consistency_required |-> FALSE]]
  /\ store = [a \in AccountIds |->
                [status |-> "active", current_balance |-> start_balance,
                 best_day_profit |-> 0, total_profit |-> 0,
                 consistency_required |-> FALSE, breach_reason |-> "none"]]
  /\ sessionPnL = [a \in AccountIds |->
                     [realized |-> 0, bestDay |-> 0, total |-> 0]]
  /\ pendingOrders = <<>>
  /\ openTrades \in LegacyTrades
  /\ latestPrices = [s \in LegacySymbols |-> NULL]
  /\ accountLocks = [a \in AccountIds |-> 0]
  /\ fills = {}
  /\ closes = {}
  /\ ticks = {}
  /\ detached = {}
  /\ tickCount = 0
  /\ placed = 0
  /\ recentOrders = {}
  /\ rejected = {}
  /\ nextId = 1
  /\ orders = {}
  /\ idem = {}
  /\ requests = {}
  /\ responses = {}
  /\ submitted = 0
  /\ tradeRows = {}
  /\ tradeEvents = {}
  /\ placeLog = {}
  /\ evaluated = {}
  /\ throttled = {}
  /\ TPS_BUCKET = [count |-> 0, ts |-> 0]
  /\ markets = {}
  /\ clients = [c \in ClientIds |-> NoClient]
  /\ sentLog = {}
  /\ priceBuffer = [s \in Symbols |-> NoPrice]
  /\ kvPrices = [s \in Symbols |-> NoPrice]
  /\ flushes = <<>>
  /\ lastTick = [s \in Symbols |-> NoPrice]
  /\ lastHistoryPush = <<>>
  /\ tickLists = [s \in Symbols |-> <<>>]
  /\ pushes = {}
  /\ feedSockets = {}
  /\ feedTimers = {}
  /\ watchdogs = {}
  /\ lastMessageTime = 0
  /\ attempt = 0
  /\ connects = 0
  /\ reconnects = <<>>
  /\ ticksPublished = 0
  /\ priceTicks = {}
  /\ executed = <<>>
  /\ partialFills = {}
  /\ resetLog = <<>>

\* matchingEngine.js 146-151
LegacyFillEligible(o, normSymbol, price) ==
  /\ o.symbol = normSymbol
  /\ \/ o.side = "buy" /\ price <= o.limit_price
     \/ o.side = "sell" /\ price >= o.limit_price

\* matchingEngine.js 155-169
LegacySLTPTriggered(t, normSymbol, price, clock) ==
  /\ t.symbol = normSymbol
  /\ ~(clock - t.time_opened < SLTP_GRACE_MS)
  /\ IF t.side = "buy"
       THEN \/ t.stop_loss /= NULL /\ price <= t.stop_loss
            \/ t.take_profit /= NULL /\ price >= t.take_profit
       ELSE \/ t.stop_loss /= NULL /\ price >= t.stop_loss
            \/ t.take_profit /= NULL /\ price <= t.take_profit

\* matchingEngine.js 297-302
LegacyNetPnL(trade, closePrice) ==
  (IF trade.side = "buy"
     THEN (closePrice - trade.entry_price) * trade.quantity * BANKNIFTY_tickValue
     ELSE (trade.entry_price - closePrice) * trade.quantity * BANKNIFTY_tickValue)
  + trade.pnl

\* matchingEngine.js 360-367
breachesLossLimits(sess) ==
  max_intraday_loss /= NULL /\ Abs(sess.realized) >= max_intraday_loss

\* matchingEngine.js 174-196, inside trading hours
LegacyPreTradeRiskCheck(order, account, sess) ==
  IF account.status \in {"blown", "paused"} THEN "ACCOUNT_INACTIVE"
  ELSE IF order.size < 1 THEN "INVALID_QTY"
  ELSE IF order.size > BANKNIFTY_maxLots THEN "MAX_LOT_SIZE"
  ELSE IF breachesLossLimits(sess) THEN "DAILY_LOSS_LIMIT"
  ELSE "ok"

\* matchingEngine.js 237-242 and 290-293: fillOrder chains a callback to the
\* account's lock; the callback starts the latency timer and returns, which
\* settles the lock, all before the event loop takes the next handler
RECURSIVE LegacyFillOrders(_, _, _, _)
LegacyFillOrders(fs, os, basePrice, tick) ==
  IF os = <<>> THEN fs
  ELSE LegacyFillOrders(
         fs \cup {[fid |-> FreshId({f.fid : f \in fs}), order |-> Head(os),
                   basePrice |-> basePrice, pc |-> "latency",
                   due |-> now + EXECUTION_LATENCY_MS, tick |-> tick]},
         Tail(os), basePrice, tick)

\* the call that has returned hands control to its caller: the loop of
\* processTick (170) or of checkMIL (376-378) calls closeTrade for its next
\* trade (296-316: the trade leaves openTrades and the trades update is
\* sent); after the last trade checkMIL returns into closeTrade, which sends
\* its audit log (356), and processTick ends
LegacyReturn(t, ots) ==
  LET n == Len(t.stack)
      top == t.stack[n]
  IN IF top.rest /= <<>>
       THEN [done |-> FALSE,
             t |-> [t EXCEPT !.pc = "trades", !.cur = <<Head(top.rest)>>,
                             !.stack[n].rest = Tail(top.rest)],
             openTrades |-> removeOpenTrade(ots, Head(top.rest).id)]
     ELSE IF top.kind = "mil"
       THEN [done |-> FALSE,
             t |-> [t EXCEPT !.pc = "audit", !.cur = <<>>,
                             !.stack = SubSeq(t.stack, 1, n - 1)],
             openTrades |-> ots]
     ELSE [done |-> TRUE, t |-> t, openTrades |-> ots]

\* matchingEngine.js 126-129: a tick arrives and processTick sends the price
\* to the KV store
LegacyTickArrive(symbol, price) ==
  /\ tickCount < MaxTicks
  /\ tickCount' = tickCount + 1
  /\ ticks' = ticks \cup
       {[seq |-> tickCount + 1, symbol |-> symbol, price |-> price,
         pc |-> "set", cur |-> <<>>, write |-> NoWrite, stack |-> <<>>]}
  /\ UNCHANGED <<book, gateway, orders, detached, now, accounts, store,
                 pendingOrders, openTrades, sessionPnL, latestPrices,
                 accountLocks, fills, closes, placed, wire, recentOrders, rejected,
                 nextId>>

\* matchingEngine.js 129-170: the price is stored; every eligible pending
\* order is handed to fillOrder, then the SL/TP scan and the first closeTrade
LegacyTickScan(t) ==
  LET toFill == SelectSeq(pendingOrders,
                  LAMBDA o : LegacyFillEligible(o, t.symbol, t.price))
      toClose == SelectSeq(openTrades,
                   LAMBDA x : LegacySLTPTriggered(x, t.symbol, t.price, now))
      r == LegacyReturn(
             [t EXCEPT !.stack = <<[kind |-> "tick", rest |-> toClose]>>],
             openTrades)
  IN
  /\ t.pc = "set"
  /\ latestPrices' = [latestPrices EXCEPT ![t.symbol] = t.price]
  /\ fills' = LegacyFillOrders(fills, toFill, t.price, t.seq)
  /\ openTrades' = r.openTrades
  /\ ticks' = (ticks \ {t}) \cup (IF r.done THEN {} ELSE {r.t})
  /\ UNCHANGED <<book, gateway, orders, detached, now, accounts, store,
                 pendingOrders, sessionPnL, accountLocks, closes, tickCount,
                 placed, wire, recentOrders, rejected, nextId>>

\* matchingEngine.js 242-287: the latency timer fires; the trade is built,
\* the order leaves the pending list, the trade is open, and the orders
\* update is sent
LegacyFillTimer(f) ==
  LET execPrice == IF f.order.side = "buy"
                     THEN f.basePrice + BANKNIFTY_spread * PriceScale
                     ELSE f.basePrice - BANKNIFTY_spread * PriceScale
      sizeToFill == f.order.size
      trade == [id |-> nextId, account_id |-> f.order.account_id,
                symbol |-> f.order.symbol, side |-> f.order.side,
                quantity |-> sizeToFill, entry_price |-> execPrice,
                stop_loss |-> f.order.stop_loss,
                take_profit |-> f.order.take_profit, time_opened |-> now,
                pnl |-> 0 - BANKNIFTY_commission * PriceScale * sizeToFill]
  IN
  /\ f.pc = "latency"
  /\ now >= f.due
  /\ nextId' = nextId + 1
  /\ pendingOrders' = SelectSeq(pendingOrders, LAMBDA o : o.id /= f.order.id)
  /\ openTrades' = Append(openTrades, trade)
  /\ fills' = (fills \ {f}) \cup {[f EXCEPT !.pc = "persist"]}
  /\ UNCHANGED <<book, gateway, orders, detached, now, accounts, store, sessionPnL,
                 latestPrices, accountLocks, closes, ticks, tickCount, placed, wire,
                 recentOrders, rejected>>

\* matchingEngine.js 279-288: the orders update is done; the trades insert
\* is sent
LegacyFillPersist(f) ==
  /\ f.pc = "persist"
  /\ fills' = (fills \ {f}) \cup {[f EXCEPT !.pc = "insert"]}
  /\ UNCHANGED <<book, gateway, orders, detached, now, accounts, store,
                 pendingOrders, openTrades, sessionPnL, latestPrices,
                 accountLocks, closes, ticks, tickCount, placed, wire, recentOrders,
                 rejected, nextId>>

\* matchingEngine.js 288-290: the trades insert is done; the fill ends with
\* its audit log
LegacyFillInsert(f) ==
  /\ f.pc = "insert"
  /\ fills' = fills \ {f}
  /\ UNCHANGED <<book, gateway, orders, detached, now, accounts, store,
                 pendingOrders, openTrades, sessionPnL, latestPrices,
                 accountLocks, closes, ticks, tickCount, placed, wire, recentOrders,
                 rejected, nextId>>

\* matchingEngine.js 316-346: the trades update is done; the account is
\* credited, the session totals follow, and the accounts update is sent
LegacyCloseCredit(t) ==
  LET trade == t.cur[1]
      a == trade.account_id
      netPnL == LegacyNetPnL(trade, t.price)
      balance == accounts[a].current_balance + netPnL
      old == sessionPnL[a]
      realized == old.realized + netPnL
      sess == [realized |-> realized, total |-> old.total + netPnL,
               bestDay |-> Max2(old.bestDay, realized)]
      required == \/ accounts[a].consistency_required
                  \/ (profit_target /= 0 /\ 2 * sess.bestDay > profit_target)
  IN
  /\ t.pc = "trades"
  /\ accounts' = [accounts EXCEPT ![a].current_balance = balance,
                                  ![a].consistency_required = required]
  /\ sessionPnL' = [sessionPnL EXCEPT ![a] = sess]
  /\ ticks' = (ticks \ {t}) \cup
       {[t EXCEPT !.pc = "accounts",
                  !.write = [current_balance |-> balance,
                             best_day_profit |-> sess.bestDay,
                             total_profit |-> sess.total]]}
  /\ UNCHANGED <<book, gateway, orders, detached, now, store, pendingOrders,
                 openTrades, latestPrices, accountLocks, fills, closes,
                 tickCount, placed, wire, recentOrders, rejected, nextId>>

\* matchingEngine.js 338-348 and 369-375: the accounts update is done;
\* checkMIL sends the blown update if the session breaches the intraday
\* loss limit, otherwise closeTrade sends its audit log
LegacyCloseStored(t) ==
  LET a == t.cur[1].account_id
  IN
  /\ t.pc = "accounts"
  /\ store' = [store EXCEPT
       ![a].current_balance = t.write.current_balance,
       ![a].best_day_profit = t.write.best_day_profit,
       ![a].total_profit = t.write.total_profit,
       ![a].consistency_required = accounts[a].consistency_required]
  /\ ticks' = (ticks \ {t}) \cup
       {[t EXCEPT !.pc = IF breachesLossLimits(sessionPnL[a])
                           THEN "blown" ELSE "audit"]}
  /\ UNCHANGED <<book, gateway, orders, detached, now, accounts, pendingOrders,
                 openTrades, sessionPnL, latestPrices, accountLocks, fills,
                 closes, tickCount, placed, wire, recentOrders, rejected, nextId>>

\* matchingEngine.js 372-378: the account is blown in the store; checkMIL
\* closes the open trades of the account one after the other
LegacyCloseBlown(t) ==
  LET a == t.cur[1].account_id
      rest == SelectSeq(openTrades, LAMBDA x : x.account_id = a)
      r == LegacyReturn(
             [t EXCEPT !.stack = Append(t.stack,
                                        [kind |-> "mil", rest |-> rest])],
             openTrades)
  IN
  /\ t.pc = "blown"
  /\ store' = [store EXCEPT ![a].status = "blown",
                            ![a].breach_reason = "MAX_INTRADAY_LOSS"]
  /\ openTrades' = r.openTrades
  /\ ticks' = (ticks \ {t}) \cup {r.t}
  /\ UNCHANGED <<book, gateway, orders, detached, now, accounts, pendingOrders,
                 sessionPnL, latestPrices, accountLocks, fills, closes,
                 tickCount, placed, wire, recentOrders, rejected, nextId>>

\* matchingEngine.js 356-357: the audit log is done and closeTrade returns
LegacyCloseAudit(t) ==
  LET r == LegacyReturn(t, openTrades)
  IN
  /\ t.pc = "audit"
  /\ openTrades' = r.openTrades
  /\ ticks' = (ticks \ {t}) \cup (IF r.done THEN {} ELSE {r.t})
  /\ UNCHANGED <<book, gateway, orders, detached, now, accounts, store,
                 pendingOrders, sessionPnL, latestPrices, accountLocks, fills,
                 closes, tickCount, placed, wire, recentOrders, rejected, nextId>>

\* matchingEngine.js 199-211 and 227-233, 387-402: the duplicate check, the
\* risk check, and the limit order joins the pending list under a fresh id
\* with its row in the orders table
LegacyPlaceOrder(order) ==
  LET hash == <<order.account_id, order.symbol, order.side, order.size,
                order.type>>
      duplicate == \E e \in recentOrders : e.hash = hash
      riskCheck == LegacyPreTradeRiskCheck(order, accounts[order.account_id],
                                           sessionPnL[order.account_id])
      accepted == ~duplicate /\ riskCheck = "ok"
  IN
  /\ placed < MaxOrders
  /\ placed' = placed + 1
  /\ recentOrders' =
       IF duplicate THEN recentOrders
       ELSE recentOrders \cup
              {[hash |-> hash, due |-> now + DUPLICATE_ORDER_MS]}
  /\ pendingOrders' =
       IF accepted
         THEN Append(pendingOrders,
                [id |-> nextId, account_id |-> order.account_id,
                 symbol |-> order.symbol, side |-> order.side,
                 size |-> order.size, type |-> order.type,
                 limit_price |-> order.limit_price,
                 stop_loss |-> order.stop_loss,
                 take_profit |-> order.take_profit])
         ELSE pendingOrders
  /\ orders' =
       IF accepted
         THEN orders \cup {[id |-> nextId, idempotency_key |-> NoKey,
                            key |-> NoKey, status |-> "pending"]}
         ELSE orders
  /\ nextId' = IF accepted THEN nextId + 1 ELSE nextId
  /\ UNCHANGED <<book, gateway, detached, now, accounts, store, openTrades,
                 sessionPnL, latestPrices, accountLocks, fills, closes, ticks,
                 tickCount, rejected, wire>>

NextLegacy ==
  \/ AdvanceTime
  \/ RecentExpire
  \/ \E order \in LegacyOrders : LegacyPlaceOrder(order)
  \/ \E s \in LegacySymbols, p \in TickPrices : LegacyTickArrive(s, p)
  \/ \E t \in ticks : LegacyTickScan(t)
  \/ \E f \in fills : LegacyFillTimer(f)
  \/ \E f \in fills : LegacyFillPersist(f)
  \/ \E f \in fills : LegacyFillInsert(f)
  \/ \E t \in ticks : LegacyCloseCredit(t)
  \/ \E t \in ticks : LegacyCloseStored(t)
  \/ \E t \in ticks : LegacyCloseBlown(t)
  \/ \E t \in ticks : LegacyCloseAudit(t)

SpecLegacy == InitLegacy /\ [][NextLegacy]_vars

\* ---------------------------------------------------------------- claims

\* the steps of a fill body from the start of its latency wait to its return
Running == {"latency", "risk", "persist", "insert"}

\* C1: fills of one account are mutually exclusive: while the body of one
\* fill is between the start of its latency wait and its return, no other
\* fill body of that account has started
C1_FillsMutuallyExclusive ==
  \A f \in fills, g \in fills :
    (f /= g /\ f.order.account_id = g.order.account_id /\ f.pc \in Running)
      => g.pc = "queued"

\* C2: when the engine starts to process a tick on a symbol, every order
\* that met its fill predicate at an earlier tick on the symbol has been
\* filled: no fill handed over by an earlier tick still waits to open its
\* trade
C2_FilledBeforeNextTick ==
  \A f \in fills :
    f.pc \in {"queued", "latency", "risk"} => f.tick = tickCount

\* C3: closes of one account go through the mutex of its fills: no two
\* closeTrade calls of one account are in flight together, and none is in
\* flight while a fill body of the account runs
C3_ClosesSerialized ==
  \A c \in closes :
    /\ \A d \in closes :
         d.trade.account_id = c.trade.account_id => d = c
    /\ \A f \in fills :
         f.order.account_id = c.trade.account_id => f.pc = "queued"

\* C4: while the accounts row has status blown no trade is opened for the
\* account
C4_NoFillWhileBlown ==
  [][\A a \in AccountIds :
       store[a].status = "blown" =>
         \A i \in 1..Len(openTrades') :
           openTrades'[i].account_id = a =>
             \E j \in 1..Len(openTrades) : openTrades[j] = openTrades'[i]]_vars

\* C5: an order that evaluateImmediateRisk has rejected inside fillOrder is
\* not in the pending list
C5_RejectedNotPending ==
  \A i \in 1..Len(pendingOrders) : pendingOrders[i].id \notin rejected

\* C6: submissions of the same order under one idempotency key are answered
\* with the same order_id, and the orders table holds exactly one row for the
\* submission
C6_OneOrderPerKey ==
  /\ \A a \in responses, b \in responses :
       (a.idempotency_key = b.idempotency_key
          /\ a.status \in {"success", "duplicate"}
          /\ b.status \in {"success", "duplicate"}) => a.order_id = b.order_id
  /\ \A a \in responses :
       a.status \in {"success", "duplicate"} =>
         Cardinality({o \in orders : o.key = a.idempotency_key}) = 1

\* a closeTrade started by an SL/TP trigger
Triggered(c) == c.src \in {"sltp", "risk"}

\* C7: an SL/TP trigger closes no trade during the processing of the tick
\* that caused its fill, and none that has been open for less than
\* SLTP_GRACE_MS
C7_NotClosedByFillingTick ==
  \A c \in closes :
    Triggered(c) =>
      /\ c.tick /= c.trade.tick
      /\ c.at - c.trade.time_opened >= SLTP_GRACE_MS

\* C8: while trailing_dd_mode is LIVE the peak_balance of the account
\* object and of the accounts row never decreases
C8_PeakNeverDecreases ==
  [][\A a \in AccountIds :
       /\ accounts[a].trailing_dd_mode = "LIVE" =>
            accounts'[a].peak_balance >= accounts[a].peak_balance
       /\ store[a].trailing_dd_mode = "LIVE" =>
            store'[a].peak_balance >= store[a].peak_balance]_vars

\* C9: once the accounts row is passed with trailing_dd_mode FROZEN the
\* peak_balance of the account no longer changes, so the drawdown floor
\* stays at the peak of the moment of passing less trail_drawdown
C9_FrozenPeakFixed ==
  [][\A a \in AccountIds :
       (store[a].status = "passed" /\ store[a].trailing_dd_mode = "FROZEN") =>
         /\ store'[a].peak_balance = store[a].peak_balance
         /\ accounts'[a].peak_balance = accounts[a].peak_balance]_vars

\* net_pnl of the claim: pnl_delta + trade.pnl
ClaimedNetPnl(trade, closePrice) ==
  (IF trade.side = "buy"
     THEN (closePrice - trade.entry_price) * trade.quantity * tickValue
     ELSE 0 - (closePrice - trade.entry_price) * trade.quantity * tickValue)
  + trade.pnl

\* C10: a close changes current_balance by exactly pnl_delta + trade.pnl,
\* trade.pnl is the entry commission, and nothing else changes the balance
C10_BalanceChangesByNetPnl ==
  [][\A a \in AccountIds :
       LET credited == {c \in closes : /\ c.pc = "publish"
                                       /\ c.trade.account_id = a
                                       /\ c \notin closes'}
           delta == accounts'[a].current_balance - accounts[a].current_balance
       IN IF credited = {} THEN delta = 0
          ELSE \E c \in credited :
                 /\ delta = ClaimedNetPnl(c.trade, c.closePrice)
                 /\ c.trade.pnl = 0 - commission * PriceScale * c.trade.quantity]_vars

\* a close has credited the account with a net_pnl other than 0
C10_Witness ==
  \E c \in closes :
    /\ c.pc = "account"
    /\ c.netPnL /= 0
    /\ c.write.current_balance = accounts[c.trade.account_id].current_balance

\* the sum of the final pnl of the rows of rs
RECURSIVE SumPnl(_)
SumPnl(rs) ==
  IF rs = {} THEN 0
  ELSE LET r == CHOOSE x \in rs : TRUE IN r.pnl + SumPnl(rs \ {r})

\* the trades of account a the store holds as closed
ClosedRows(a) == {r \in tradeRows : r.account_id = a /\ ~r.is_open}

\* C11: for every account, once no closeTrade of the account is in flight,
\* the realized counter of its session equals the sum of the final pnl of
\* its trades closed that day
C11_RealizedIsSumOfClosedPnl ==
  \A a \in AccountIds :
    (\A c \in closes : c.trade.account_id /= a)
      => sessionPnL[a].realized = SumPnl(ClosedRows(a))

\* C12: ticks on one symbol are processed one after the other: while the
\* handler of a tick has not finished its fill scan, its SL/TP closes and its
\* risk evaluation, no handler of a later tick on the symbol has begun
C12_TicksOneAtATime ==
  \A t \in ticks : \A u \in ticks :
    t.symbol = u.symbol => t.seq = u.seq

\* C13: every tick the publisher has accepted has been handed to processTick
\* and goes through risk evaluation, whether or not the throttle dropped its
\* broadcast: its handler is still running or has called
\* evaluateOpenPositions
C13_ThrottledTicksProcessed ==
  \A k \in 1..tickCount :
    \/ \E t \in ticks : t.seq = k
    \/ k \in evaluated

\* a tick whose broadcast the throttle dropped has been risk-evaluated
C13_Witness ==
  \E k \in throttled : k \in evaluated /\ \A t \in ticks : t.seq /= k

\* the ids a fill body can carry
FillIds == 1..(MaxTicks * MaxOrders + 1)

\* C14: the lock of an account is released on every way out of a fill body
\* (trade made, risk rejection, error of the risk read), so a fill body
\* queued behind another of its account is eventually run
C14_QueuedFillRuns ==
  \A i \in FillIds :
    (\E f \in fills : f.fid = i /\ f.pc = "queued")
      ~> (\A f \in fills : f.fid = i => f.pc /= "queued")

\* a fill body has been rejected for an error of the risk read while another
\* body of the account was queued behind it
C14_Witness ==
  \E f \in fills : \E g \in fills :
    /\ f.pc = "risk" /\ f.risk = "RISK_ENGINE_ERROR"
    /\ g.pc = "queued" /\ g.pred = f.fid

\* C15: on trade_events the TRADE_OPENED of a trade comes before its
\* TRADE_CLOSED: every TRADE_CLOSED published found the TRADE_OPENED of its
\* trade already published
C15_OpenedBeforeClosed ==
  \A e \in tradeEvents : e.type = "TRADE_CLOSED" => e.opened

\* TRADE_CLOSED has been published for a trade a fill has opened
C15_Witness ==
  \E e \in tradeEvents :
    /\ e.type = "TRADE_CLOSED"
    /\ e.trade_id < nextId

\* C16: when handleBreach starts the closeTrade calls of a liquidation, the
\* accounts row of the store already has status blown and the reason of the
\* breach
C16_BlownWrittenBeforeClose ==
  [][\A c \in closes' \ closes :
       c.src = "breach" /\ c.pc = "publish"
         => /\ store'[c.trade.account_id].status = "blown"
            /\ store'[c.trade.account_id].blown_reason = c.reason]_vars

\* a closeTrade of a liquidation is in flight
C16_Witness ==
  \E c \in closes :
    /\ c.src = "breach"
    /\ c.pc = "publish"
    /\ store[c.trade.account_id].blown_reason = c.reason

\* C17: blown is terminal: an accounts row that has status blown keeps it
\* whatever tick, close or risk evaluation comes next
C17_BlownIsTerminal ==
  [][\A a \in AccountIds :
       store[a].status = "blown" => store'[a].status = "blown"]_vars

\* C18: an account is blown for MAX_INTRADAY_LOSS only when its loss of the
\* day, the balance it started the day with less its current balance, has
\* reached max_intraday_loss
C18_BlownOnlyOnIntradayLoss ==
  \A a \in AccountIds :
    store[a].breach_reason = "MAX_INTRADAY_LOSS"
      => start_balance - accounts[a].current_balance >= max_intraday_loss

\* C19: an account whose best realized profit of a single day is more than
\* half its profit target is not marked passed: no write of status passed
\* lands on an accounts row whose best_day_profit exceeds profit_target / 2
C19_NoPassOverBestDay ==
  [][\A a \in AccountIds :
       (store[a].status /= "passed" /\ store'[a].status = "passed")
         => store[a].best_day_profit * 2 <= profit_target]_vars

\* an earlier call of placeOrder that put the hash of call e in recentOrders
Earlier(e) ==
  {d \in placeLog : d.n < e.n /\ d.hash = e.hash /\ ~d.present}

\* C20 as stated: placeOrder answers DUPLICATE_ORDER exactly when an order
\* of the same hash was submitted less than DUPLICATE_ORDER_MS earlier and
\* its entry is still in the set
C20_DuplicateIffWithinWindow ==
  \A e \in placeLog :
    e.result = "DUPLICATE_ORDER"
      <=> /\ e.present
          /\ \E d \in Earlier(e) : e.at - d.at < DUPLICATE_ORDER_MS

\* C20: placeOrder answers DUPLICATE_ORDER exactly when the hash of the
\* order is in recentOrders; the hash is there for at least
\* DUPLICATE_ORDER_MS after an order that was not a duplicate, and until the
\* timer removes it; a rejected duplicate creates no pending order
C20_DuplicateIffEntryPresent ==
  \A e \in placeLog :
    /\ e.result = "DUPLICATE_ORDER" <=> e.present
    /\ e.present => Earlier(e) /= {}
    /\ \A d \in Earlier(e) : e.at - d.at < DUPLICATE_ORDER_MS => e.present
    /\ e.result = "DUPLICATE_ORDER" => ~e.created

\* an order has been rejected as a duplicate and has made no pending order
C20_Witness ==
  /\ \E e \in placeLog : e.result = "DUPLICATE_ORDER" /\ ~e.created
  /\ Cardinality(placeLog) = MaxRequests

\* the market orders whose evaluateImmediateRisk in placeOrder has failed
RiskRejected ==
  {m \in markets : m.pc = "returned" /\ m.orderId /= NULL /\ m.result /= "ok"}

\* C21: when evaluateImmediateRisk fails for a market order in placeOrder,
\* the row of the order in the orders table ends with status rejected and no
\* trade is made of the order
C21_RiskRejectedRowIsRejected ==
  \A m \in RiskRejected :
    /\ \A o \in orders : o.id = m.orderId => o.status = "rejected"
    /\ \A i \in DOMAIN openTrades : openTrades[i].order_id /= m.orderId

\* the ids of the fill bodies and of the open trades
FidsOf(fs) == {f.fid : f \in fs}
TradeIds(ots) == {ots[i].id : i \in DOMAIN ots}

\* price does not leave limit order o pending: it is not below the limit of
\* a sell, not above the limit of a buy
Reaches(o, price) ==
  /\ o.side = "sell" => ~(price < o.limit_price)
  /\ o.side = "buy" => ~(price > o.limit_price)

\* C22: a pending limit order is filled only by a tick that satisfies its
\* fill predicate: a fill of the order is started only by the arrival of a
\* tick whose price has reached the limit, the order leaves the pending list
\* only through such a fill, and a trade is made of it only by such a fill
C22_FilledOnlyByEligibleTick ==
  [][ /\ \A f \in fills' :
           f.fid \notin FidsOf(fills) =>
             /\ tickCount' = tickCount + 1
             /\ f.tick = tickCount'
             /\ Reaches(f.order, latestPrices'[f.order.symbol])
      /\ \A i \in DOMAIN pendingOrders :
           (\A j \in DOMAIN pendingOrders' :
               pendingOrders'[j].id /= pendingOrders[i].id) =>
             \E f \in fills : /\ f.order.id = pendingOrders[i].id
                              /\ Reaches(f.order, f.basePrice)
      /\ \A i \in DOMAIN openTrades' :
           openTrades'[i].id \notin TradeIds(openTrades) =>
             \E f \in fills : /\ f.order.id = openTrades'[i].order_id
                              /\ Reaches(f.order, f.basePrice)
    ]_vars

\* a sell limit placed before a tick below its limit is still pending after
\* the tick has been scanned, with no fill started and no trade made of it
C22_Witness ==
  /\ tickCount = 1
  /\ fills = {}
  /\ Len(pendingOrders) = 1
  /\ pendingOrders[1].side = "sell"
  /\ \A i \in DOMAIN openTrades : openTrades[i].order_id /= pendingOrders[1].id
  /\ \E e \in placeLog, c \in closes :
       /\ e.created
       /\ c.src = "sltp" /\ c.trade.id = 101 /\ c.tick = 1
       /\ c.at > e.at
       /\ c.closePrice < pendingOrders[1].limit_price

\* trade t is past its grace period and price is exactly its stop loss or
\* beyond its take profit in the direction of profit
AtStopOrBeyondTarget(t, symbol, price) ==
  /\ t.symbol = symbol
  /\ now - t.time_opened >= SLTP_GRACE_MS
  /\ \/ t.stop_loss /= NULL /\ price = t.stop_loss
     \/ t.take_profit /= NULL /\ t.side = "buy" /\ price > t.take_profit
     \/ t.take_profit /= NULL /\ t.side = "sell" /\ price < t.take_profit

\* C23: a tick whose price is exactly the stop loss of an open trade past
\* its grace period, of either side, or beyond its take profit in the
\* direction of profit, closes the trade: at the arrival of the tick the
\* handler starts closeTrade for the trade or holds it in the list it closes
\* one by one, and a trade leaves that list only by its closeTrade starting
C23_StopInclusiveTargetBeyond ==
  [][ /\ tickCount' = tickCount + 1 =>
           \A s \in Symbols : \A i \in DOMAIN openTrades :
             (latestPrices'[s] /= NULL /\
              AtStopOrBeyondTarget(openTrades[i], s, latestPrices'[s])) =>
               \/ \E c \in closes' \ closes :
                    c.trade.id = openTrades[i].id /\ c.tick = tickCount'
               \/ \E h \in ticks' :
                    /\ h.seq = tickCount'
                    /\ \E j \in DOMAIN h.toClose :
                         h.toClose[j].id = openTrades[i].id
      /\ \A h \in ticks :
           h.toClose /= <<>> =>
             \E g \in ticks' :
               /\ g.seq = h.seq
               /\ \/ g.toClose = h.toClose
                  \/ /\ g.toClose = Tail(h.toClose)
                     /\ \E c \in closes' \ closes :
                          /\ c.trade.id = Head(h.toClose).id
                          /\ c.tick = h.seq
    ]_vars

\* a trade is being closed at a price exactly its stop loss, and a buy at a
\* price beyond its take profit
C23_Witness ==
  /\ \E c \in closes : /\ c.src = "sltp"
                        /\ c.trade.side = "sell"
                        /\ c.closePrice = c.trade.stop_loss
  /\ \E c \in closes : /\ c.src = "sltp"
                        /\ c.trade.side = "buy"
                        /\ c.closePrice > c.trade.take_profit

\* C24: a trade closed by an SL/TP trigger, of processTick or of
\* evaluateOpenPositions, is closed at the price of the triggering tick; only
\* a breach liquidation closes at a price with slippage
C24_TriggerExitAtTickPrice ==
  \A c \in closes : \A h \in ticks :
    (Triggered(c) /\ h.seq = c.tick) => c.closePrice = h.price

\* the ids in use: of the pending orders, of the orders of the fill bodies,
\* of the rows of the orders table and of the trades
IdsInUse ==
  {pendingOrders[i].id : i \in DOMAIN pendingOrders} \cup
  {f.order.id : f \in fills} \cup {o.id : o \in orders} \cup
  TradeIds(openTrades) \cup {r.id : r \in tradeRows}

\* C25: a fill of an order of quantity q that opens a trade of quantity
\* f < q keeps q - f as its remainder, and when the fill body ends exactly
\* one order is appended to the pending list: the order of the fill under a
\* fresh id with quantity q - f and the same limit price; a fill of the
\* whole quantity appends nothing
C25_RemainderReappended ==
  [][ /\ \A i \in DOMAIN openTrades' :
           openTrades'[i].id \notin TradeIds(openTrades) =>
             \E f \in fills' :
               /\ f.pc = "persist" /\ f.trade = openTrades'[i].id
               /\ openTrades'[i].quantity + f.remainingQty = f.order.quantity
      /\ \A f \in fills :
           (f.pc = "persist" /\ f.fid \notin FidsOf(fills')) =>
             IF f.remainingQty > 0
               THEN /\ Len(pendingOrders') = Len(pendingOrders) + 1
                    /\ SubSeq(pendingOrders', 1, Len(pendingOrders)) = pendingOrders
                    /\ LET rest == pendingOrders'[Len(pendingOrders')]
                       IN /\ rest.quantity = f.remainingQty
                          /\ rest.limit_price = f.order.limit_price
                          /\ rest.id \notin IdsInUse
                          /\ rest = [f.order EXCEPT !.id = rest.id,
                                                    !.quantity = rest.quantity]
               ELSE pendingOrders' = pendingOrders
    ]_vars

\* a partial fill has ended: its trade and the remainder appended after it
\* add up to the quantity of the order submitted
C25_Witness ==
  \E o \in OrderTemplates, i \in DOMAIN pendingOrders, j \in DOMAIN openTrades :
    /\ openTrades[j].side = o.side /\ pendingOrders[i].side = o.side
    /\ openTrades[j].order_id < pendingOrders[i].id
    /\ openTrades[j].id < pendingOrders[i].id
    /\ openTrades[j].quantity < o.quantity
    /\ openTrades[j].quantity + pendingOrders[i].quantity = o.quantity

\* the key the request of quantity q is submitted under
KeyOfQuantity(q) ==
  (CHOOSE b \in LotBodies : b.quantity = q).idempotency_key

\* C26: a request of quantity minQty passes the lot-size check and is never
\* answered INVALID_LOT_SIZE; a request of quantity minQty - qtyStep is
\* answered INVALID_LOT_SIZE and with nothing else, never reaches the risk
\* check, and no row of the orders table, no pending order and no trade is
\* made of it
C26_LotSizeEdge ==
  /\ \A a \in responses :
       /\ a.idempotency_key = KeyOfQuantity(minQty) =>
            a.status /= "INVALID_LOT_SIZE"
       /\ a.idempotency_key = KeyOfQuantity(minQty - qtyStep) =>
            a.status = "INVALID_LOT_SIZE" /\ a.order_id = NULL
  /\ \A r \in requests : r.body.quantity /= minQty - qtyStep
  /\ \A o \in orders : o.key /= KeyOfQuantity(minQty - qtyStep)
  /\ \A i \in DOMAIN pendingOrders :
       pendingOrders[i].quantity /= minQty - qtyStep
  /\ \A i \in DOMAIN openTrades :
       \E ts \in InitialTrades : \E j \in DOMAIN ts : ts[j] = openTrades[i]
  /\ Cardinality({a \in responses :
                    a.idempotency_key = KeyOfQuantity(minQty - qtyStep)})
       + Cardinality(requests)
       + Cardinality({a \in responses :
                        a.idempotency_key = KeyOfQuantity(minQty)})
       = submitted

\* a request of minQty - qtyStep has been answered INVALID_LOT_SIZE and one
\* of minQty has been accepted: its row is in the orders table and its order
\* is pending
C26_Witness ==
  /\ \E a \in responses : a.status = "INVALID_LOT_SIZE"
  /\ \E a \in responses : /\ a.status = "success"
                           /\ a.idempotency_key = KeyOfQuantity(minQty)
  /\ \E o \in orders : o.key = KeyOfQuantity(minQty)
  /\ \E i \in DOMAIN pendingOrders : pendingOrders[i].quantity = minQty

\* the broadcasts sent to client c in the second that starts at time t
SentWithin(c, t) ==
  {e \in sentLog : c \in e.to /\ t <= e.at /\ e.at < t + 1000}

\* C27: in any interval of one second at most MAX_BROADCAST_TPS broadcasts
\* go through the throttle to a client
C27_AtMostTwentyPerSecond ==
  \A c \in ClientIds : \A e \in sentLog :
    Cardinality(SentWithin(c, e.at)) <= MAX_BROADCAST_TPS

\* the claim's condition for sending a message of the given symbol to a
\* client
ShouldSend(client, symbol) ==
  /\ client.subscriptions = {} \/ symbol \in client.subscriptions
  /\ client.bufferedAmount <= SendBufferLimit

\* C29: a broadcast that passes the throttle is sent to an open client
\* exactly when the subscriptions of the client are empty or hold the symbol
\* of the message, and the socket of the client buffers no more than 1 MB
C29_SentIffSubscribedOrAll ==
  [][\A e \in sentLog' \ sentLog : \A c \in ClientIds :
       clients[c].readyState = "OPEN"
         => (c \in e.to <=> ShouldSend(clients[c], e.symbol))]_vars

\* the open trades and the pending orders the server holds
ServerView ==
  [openTrades |-> {openTrades[i].id : i \in DOMAIN openTrades},
   pendingOrders |-> {pendingOrders[i].id : i \in DOMAIN pendingOrders}]

\* C30: an open client that has applied the welcome message and every event
\* it was sent since holds the open trades and the pending orders of the
\* server
C30_ClientHoldsServerState ==
  \A c \in ClientIds :
    clients[c].readyState = "OPEN"
      => /\ clients[c].openTrades = ServerView.openTrades
         /\ clients[c].pendingOrders = ServerView.pendingOrders

\* the latest_prices hash holds the last accepted tick of every symbol that
\* has had one
KvHoldsLatest ==
  \A s \in Symbols : lastTick[s] /= NoPrice => kvPrices[s] = lastTick[s]

\* C28: whatever the order of the ticks and the flushes, the latest_prices
\* hash eventually holds, for every symbol, the price and the time of the
\* last accepted tick of the symbol
C28_KvEventuallyLatest == <>[]KvHoldsLatest

\* C31: any two entries of the ticks list of a symbol carry times at least
\* HISTORY_INTERVAL_MS apart
C31_HistoryEntriesASecondApart ==
  \A s \in Symbols : \A i \in DOMAIN tickLists[s] : \A j \in DOMAIN tickLists[s] :
    i < j => tickLists[s][i].ts - tickLists[s][j].ts >= HISTORY_INTERVAL_MS

\* the longest delay of a reconnect
BackoffCap == 30000

\* C32: the delay before the n-th reconnect in a row grows with n, each
\* delay at least twice the one before until the cap of 30 s is reached, and
\* is never over the cap
C32_BackoffGrowsToCap ==
  \A i \in DOMAIN reconnects :
    /\ reconnects[i].delay <= BackoffCap
    /\ (i > 1 /\ reconnects[i].n = reconnects[i - 1].n + 1)
         => reconnects[i].delay >= Min2(BackoffCap, 2 * reconnects[i - 1].delay)

\* the sockets of the stream that are connecting or open
LiveSockets == {w \in feedSockets : w.state \in {"CONNECTING", "OPEN"}}

\* C33: the stream has at most one live socket and at most one watchdog
C33_OneSocketOneWatchdog ==
  /\ Cardinality(LiveSockets) <= 1
  /\ Cardinality(watchdogs) <= 1

\* C34: an order is filled at most once: no two open trades are made of the
\* same order
C34_OneTradePerOrder ==
  \A i \in DOMAIN openTrades : \A j \in DOMAIN openTrades :
    openTrades[i].order_id = openTrades[j].order_id => i = j

\* the ids of the open trades
OpenIds == {openTrades[i].id : i \in DOMAIN openTrades}

\* C35: a trade is closed at most once: every closeTrade that is started is
\* for a trade that is open, so that its pnl is applied once and one
\* TRADE_CLOSED event is published for it
C35_ClosedAtMostOnce ==
  [][\A c \in closes' \ closes : c.pc = "publish" => c.trade.id \in OpenIds]_vars

\* C36: after handleBreach has run for an account, which leaves the row of
\* the account with status blown, the account in memory has status blown,
\* the status by which the account loop of a later tick skips it
C36_BreachMarksMemoryBlown ==
  \A a \in AccountIds :
    store[a].status = "blown" => accounts[a].status = "blown"

\* C37: every trade of the feed the publisher has accepted has caused
\* exactly one execution of processTick
C37_OneProcessTickPerTick ==
  \A id \in 1..ticksPublished :
    Cardinality({i \in DOMAIN executed : executed[i] = id}) = 1

\* C38: the quantity a fill gives to the trade is at most the quantity of
\* the order, the remainder being zero or more, for every quantity the lot
\* size allows, those below one lot included
C38_FillWithinOrder ==
  \A f \in partialFills : f.filled <= f.quantity /\ f.remaining >= 0

\* C39: the total_profit a close writes to the account is the total of the
\* account before the close plus the net pnl of the trade, on the first
\* close of a new day too
C39_TotalProfitCumulative ==
  [][\A c \in closes' \ closes :
       c.pc = "account" =>
         c.write.total_profit = sessionPnL[c.trade.account_id].total + c.netPnL]_vars

\* C40: when resetAccounts has returned, the balance of every account in
\* memory is its balance before the reset plus the net pnl of the trades
\* the reset has force-closed for the account
C40_ResetConservesBalance ==
  \A i \in DOMAIN resetLog :
    resetLog[i].done =>
      \A a \in AccountIds :
        resetLog[i].after[a] = resetLog[i].before[a] + resetLog[i].forced[a]

====
